---- MODULE Spec2Model ----
(***************************************************************************)
(* A model of lib/access.c of libsensors: chip-name matching, the lookup   *)
(* of config entries and catalog features, labels, ignore rules, compute   *)
(* expressions, get/set of a feature and the execution of the configured   *)
(* set statements.                                                         *)
(*                                                                         *)
(* C strings are sequences of character codes (the terminating NUL is the  *)
(* end of the sequence); a NULL prefix is the empty sequence, and no       *)
(* non-NULL empty string is ever generated.  Pointers into arrays are      *)
(* 1-based indices, 0 (or <<0, 0>>) standing for NULL.  Return codes are   *)
(* the integers of the C code.                                             *)
(***************************************************************************)
EXTENDS Integers, Sequences, FiniteSets, TLC

VARIABLES
    sensors_chip_features_list, \* the catalog: families of feature descriptors
    sensors_config_chips,       \* the config entries, in declaration order
    sensors_proc_chips,         \* the detected chips, in enumeration order
    proc,                       \* the raw I/O backend: registers and failing accesses
    io,                         \* the calls made to the backend and the lookups, in order
    call                        \* the API call just made: arguments and results

vars == <<sensors_chip_features_list, sensors_config_chips, sensors_proc_chips,
          proc, io, call>>

-----------------------------------------------------------------------------
(* Program constants (sensors.h, error.h), as access.c uses them.          *)

SENSORS_CHIP_NAME_PREFIX_ANY == <<>>
SENSORS_CHIP_NAME_BUS_ISA == -1
SENSORS_CHIP_NAME_BUS_ANY == -2
SENSORS_CHIP_NAME_BUS_ANY_I2C == -3
SENSORS_CHIP_NAME_BUS_DUMMY == -4
SENSORS_CHIP_NAME_BUS_PCI == -5
SENSORS_CHIP_NAME_ADDR_ANY == -1
SENSORS_NO_MAPPING == -1
SENSORS_MODE_R == 1
SENSORS_MODE_W == 2
SENSORS_ERR_WILDCARDS == 1
SENSORS_ERR_NO_ENTRY == 2
SENSORS_ERR_PROC == 4
SENSORS_ERR_DIV_ZERO == 5
SENSORS_ERR_ACCESS_W == 9
SENSORS_ERR_ACCESS_R == 10

-----------------------------------------------------------------------------
(* libc: strcasecmp, on sequences of character codes.                      *)

tolower(c) == IF c >= 65 /\ c <= 90 THEN c + 32 ELSE c

CharAt(s, i) == IF i <= Len(s) THEN s[i] ELSE 0

RECURSIVE strcasecmp_from(_, _, _)
strcasecmp_from(s1, s2, i) ==
    LET c1 == tolower(CharAt(s1, i))
        c2 == tolower(CharAt(s2, i))
    IN  IF c1 # c2 THEN c1 - c2
        ELSE IF c1 = 0 THEN 0
        ELSE strcasecmp_from(s1, s2, i + 1)

strcasecmp(s1, s2) == strcasecmp_from(s1, s2, 1)

-----------------------------------------------------------------------------
(* sensors_match_chip: 1 when the two chip descriptions could match.       *)

sensors_match_chip_no_any_i2c(chip1, chip2) ==
    IF (chip1.prefix # SENSORS_CHIP_NAME_PREFIX_ANY) /\
       (chip2.prefix # SENSORS_CHIP_NAME_PREFIX_ANY) /\
       strcasecmp(chip1.prefix, chip2.prefix) # 0
    THEN 0
    ELSE IF (chip1.bus # SENSORS_CHIP_NAME_BUS_ANY) /\
            (chip2.bus # SENSORS_CHIP_NAME_BUS_ANY) /\
            (chip1.bus # chip2.bus) /\
            ( (chip1.bus = SENSORS_CHIP_NAME_BUS_ISA) \/
              (chip2.bus = SENSORS_CHIP_NAME_BUS_ISA) \/
              (chip1.bus = SENSORS_CHIP_NAME_BUS_PCI) \/
              (chip2.bus = SENSORS_CHIP_NAME_BUS_PCI) \/
              (chip1.bus # SENSORS_CHIP_NAME_BUS_ANY_I2C) )
    THEN 0
    ELSE IF (chip1.addr # chip2.addr) /\
            (chip1.addr # SENSORS_CHIP_NAME_ADDR_ANY) /\
            (chip2.addr # SENSORS_CHIP_NAME_ADDR_ANY)
    THEN 0
    ELSE 1

sensors_match_chip(chip1, chip2) ==
    IF (chip1.prefix # SENSORS_CHIP_NAME_PREFIX_ANY) /\
       (chip2.prefix # SENSORS_CHIP_NAME_PREFIX_ANY) /\
       strcasecmp(chip1.prefix, chip2.prefix) # 0
    THEN 0
    ELSE IF (chip1.bus # SENSORS_CHIP_NAME_BUS_ANY) /\
            (chip2.bus # SENSORS_CHIP_NAME_BUS_ANY) /\
            (chip1.bus # chip2.bus) /\
            ( (chip1.bus = SENSORS_CHIP_NAME_BUS_ISA) \/
              (chip2.bus = SENSORS_CHIP_NAME_BUS_ISA) \/
              (chip1.bus = SENSORS_CHIP_NAME_BUS_PCI) \/
              (chip2.bus = SENSORS_CHIP_NAME_BUS_PCI) \/
              ( (chip1.bus # SENSORS_CHIP_NAME_BUS_ANY_I2C) /\
                (chip2.bus # SENSORS_CHIP_NAME_BUS_ANY_I2C) ) )
    THEN 0
    ELSE IF (chip1.addr # chip2.addr) /\
            (chip1.addr # SENSORS_CHIP_NAME_ADDR_ANY) /\
            (chip2.addr # SENSORS_CHIP_NAME_ADDR_ANY)
    THEN 0
    ELSE 1

sensors_chip_name_has_wildcards_no_any_i2c(chip) ==
    IF (chip.prefix = SENSORS_CHIP_NAME_PREFIX_ANY) \/
       (chip.bus = SENSORS_CHIP_NAME_BUS_ANY) \/
       (chip.addr = SENSORS_CHIP_NAME_ADDR_ANY)
    THEN 1
    ELSE 0

(* sensors_chip_name_has_wildcards: 1 when the name is not absolute.       *)
sensors_chip_name_has_wildcards(chip) ==
    IF (chip.prefix = SENSORS_CHIP_NAME_PREFIX_ANY) \/
       (chip.bus = SENSORS_CHIP_NAME_BUS_ANY) \/
       (chip.bus = SENSORS_CHIP_NAME_BUS_ANY_I2C) \/
       (chip.addr = SENSORS_CHIP_NAME_ADDR_ANY)
    THEN 1
    ELSE 0

-----------------------------------------------------------------------------
(* sensors_for_all_config_chips: the index of the next config entry, from  *)
(* last to first, one of whose chip descriptions matches chip_name; last   *)
(* is the index returned by the previous call, 0 (NULL) on the first call; *)
(* 0 (NULL) when no more entries match.                                    *)

fits_match(chips, chip_name) ==
    \E i \in 1..Len(chips) : sensors_match_chip(chips[i], chip_name) # 0

RECURSIVE config_scan_from(_, _)
config_scan_from(chip_name, nr) ==
    IF nr < 1 THEN 0
    ELSE IF fits_match(sensors_config_chips[nr].chips, chip_name) THEN nr
    ELSE config_scan_from(chip_name, nr - 1)

sensors_for_all_config_chips_forward(chip_name, last) ==
    LET later == { nr \in (last + 1)..Len(sensors_config_chips) :
                     fits_match(sensors_config_chips[nr].chips, chip_name) }
    IN  IF later = {} THEN 0
        ELSE CHOOSE nr \in later : \A m \in later : nr <= m

sensors_for_all_config_chips(chip_name, last) ==
    config_scan_from(chip_name,
                     IF last # 0 THEN last - 1 ELSE Len(sensors_config_chips))

-----------------------------------------------------------------------------
(* The catalog lookups.  A feature pointer is <<i, j>>: family i of        *)
(* sensors_chip_features_list, feature j of it; NULL is <<0, 0>>.          *)

NULL_feature == <<0, 0>>

Deref(fp) == sensors_chip_features_list[fp[1]].feature[fp[2]]

CatalogPositions ==
    UNION { { <<i, j>> : j \in 1..Len(sensors_chip_features_list[i].feature) } :
            i \in 1..Len(sensors_chip_features_list) }

FirstPosition(S) ==
    IF S = {} THEN NULL_feature
    ELSE CHOOSE p \in S :
            \A q \in S : p[1] < q[1] \/ (p[1] = q[1] /\ p[2] <= q[2])

sensors_lookup_feature_nr(prefix, feature) ==
    FirstPosition({ p \in CatalogPositions :
        /\ strcasecmp(sensors_chip_features_list[p[1]].prefix, prefix) = 0
        /\ Deref(p).number = feature })

sensors_lookup_feature_name(prefix, feature) ==
    FirstPosition({ p \in CatalogPositions :
        /\ strcasecmp(sensors_chip_features_list[p[1]].prefix, prefix) = 0
        /\ strcasecmp(Deref(p).name, feature) = 0 })

-----------------------------------------------------------------------------
(* The trace of one API call: the lookups it makes and the calls it makes  *)
(* to the raw I/O backend, in order.                                       *)

EvCatalog(prefix, key) == [ev |-> "catalog", prefix |-> prefix, key |-> key]
EvConfig(name, nr) == [ev |-> "config", name |-> name, nr |-> nr]
EvRead(name, feature, ok) ==
    [ev |-> "read", name |-> name, feature |-> feature, ok |-> ok]
EvWrite(name, feature, value, ok) ==
    [ev |-> "write", name |-> name, feature |-> feature, value |-> value, ok |-> ok]

NULL_string == <<>>

-----------------------------------------------------------------------------
(* sensors_get_label                                                       *)

RECURSIVE first_label(_, _, _)
first_label(fname, labels, i) ==
    IF i > Len(labels) THEN 0
    ELSE IF strcasecmp(fname, labels[i].name) = 0 THEN i
    ELSE first_label(fname, labels, i + 1)

RECURSIVE get_label_loop(_, _, _, _)
get_label_loop(name, fname, chip, trace) ==
    LET nr == sensors_for_all_config_chips(name, chip)
        tr == Append(trace, EvConfig(name, nr))
    IN  IF nr = 0
        THEN [rc |-> 0, result |-> fname, io |-> tr]
        ELSE LET i == first_label(fname, sensors_config_chips[nr].labels, 1)
             IN  IF i # 0
                 THEN [rc |-> 0,
                       result |-> sensors_config_chips[nr].labels[i].value,
                       io |-> tr]
                 ELSE get_label_loop(name, fname, nr, tr)

sensors_get_label(name, feature) ==
    IF sensors_chip_name_has_wildcards(name) # 0
    THEN [rc |-> - SENSORS_ERR_WILDCARDS, result |-> NULL_string, io |-> <<>>]
    ELSE LET featureptr == sensors_lookup_feature_nr(name.prefix, feature)
             tr == <<EvCatalog(name.prefix, feature)>>
         IN  IF featureptr = NULL_feature
             THEN [rc |-> - SENSORS_ERR_NO_ENTRY, result |-> NULL_string, io |-> tr]
             ELSE get_label_loop(name, Deref(featureptr).name, 0, tr)

-----------------------------------------------------------------------------
(* sensors_get_ignored: 0 when the feature is ignored, 1 when it is valid. *)

(* One pass over the ignores of an entry, from index i, with res so far:   *)
(* [done |-> TRUE] after "return 0", else the new res.                     *)
RECURSIVE ignores_loop(_, _, _, _, _)
ignores_loop(fname, alt, ignores, i, res) ==
    IF i > Len(ignores) THEN [done |-> FALSE, res |-> res]
    ELSE IF strcasecmp(fname, ignores[i].name) = 0
    THEN [done |-> TRUE, res |-> 0]
    ELSE IF alt # NULL_feature /\ strcasecmp(Deref(alt).name, ignores[i].name) = 0
    THEN ignores_loop(fname, alt, ignores, i + 1, 0)
    ELSE ignores_loop(fname, alt, ignores, i + 1, res)

RECURSIVE get_ignored_loop(_, _, _, _, _, _)
get_ignored_loop(name, fname, alt, chip, res, trace) ==
    LET nr == sensors_for_all_config_chips(name, chip)
        tr == Append(trace, EvConfig(name, nr))
    IN  IF nr = 0
        THEN [rc |-> res, io |-> tr]
        ELSE LET r == ignores_loop(fname, alt, sensors_config_chips[nr].ignores, 1, res)
             IN  IF r.done
                 THEN [rc |-> 0, io |-> tr]
                 ELSE get_ignored_loop(name, fname, alt, nr, r.res, tr)

(* sensors_get_ignored with the alternate taken from compute_mapping.      *)
sensors_get_ignored_compute_mapping(name, feature) ==
    IF sensors_chip_name_has_wildcards(name) # 0
    THEN [rc |-> - SENSORS_ERR_WILDCARDS, io |-> <<>>]
    ELSE LET featureptr == sensors_lookup_feature_nr(name.prefix, feature)
             tr1 == <<EvCatalog(name.prefix, feature)>>
         IN  IF featureptr = NULL_feature
             THEN [rc |-> - SENSORS_ERR_NO_ENTRY, io |-> tr1]
             ELSE LET mapping == Deref(featureptr).compute_mapping
                      alt_featureptr ==
                          IF mapping = SENSORS_NO_MAPPING THEN NULL_feature
                          ELSE sensors_lookup_feature_nr(name.prefix, mapping)
                      tr2 == IF mapping = SENSORS_NO_MAPPING THEN tr1
                             ELSE Append(tr1, EvCatalog(name.prefix, mapping))
                  IN  IF mapping # SENSORS_NO_MAPPING /\ alt_featureptr = NULL_feature
                      THEN [rc |-> - SENSORS_ERR_NO_ENTRY, io |-> tr2]
                      ELSE get_ignored_loop(name, Deref(featureptr).name,
                                            alt_featureptr, 0, 1, tr2)

sensors_get_ignored(name, feature) ==
    IF sensors_chip_name_has_wildcards(name) # 0
    THEN [rc |-> - SENSORS_ERR_WILDCARDS, io |-> <<>>]
    ELSE LET featureptr == sensors_lookup_feature_nr(name.prefix, feature)
             tr1 == <<EvCatalog(name.prefix, feature)>>
         IN  IF featureptr = NULL_feature
             THEN [rc |-> - SENSORS_ERR_NO_ENTRY, io |-> tr1]
             ELSE LET mapping == Deref(featureptr).mapping
                      alt_featureptr ==
                          IF mapping = SENSORS_NO_MAPPING THEN NULL_feature
                          ELSE sensors_lookup_feature_nr(name.prefix, mapping)
                      tr2 == IF mapping = SENSORS_NO_MAPPING THEN tr1
                             ELSE Append(tr1, EvCatalog(name.prefix, mapping))
                  IN  IF mapping # SENSORS_NO_MAPPING /\ alt_featureptr = NULL_feature
                      THEN [rc |-> - SENSORS_ERR_NO_ENTRY, io |-> tr2]
                      ELSE get_ignored_loop(name, Deref(featureptr).name,
                                            alt_featureptr, 0, 1, tr2)

-----------------------------------------------------------------------------
(* Natural numbers of any size, for the significands of the doubles: a     *)
(* natural is the sequence of its digits in base BASE, least significant   *)
(* first, without leading zero digits (zero is <<>>).  BASE is small       *)
(* enough for the product of two digits to stay below 2^31.                *)

BASE == 32768

Abs(x) == IF x < 0 THEN - x ELSE x

Larger(x, y) == IF x < y THEN y ELSE x

RECURSIVE nat_of(_)
nat_of(n) == IF n = 0 THEN <<>> ELSE <<n % BASE>> \o nat_of(n \div BASE)

RECURSIVE nat_trim(_)
nat_trim(x) ==
    IF x = <<>> THEN <<>>
    ELSE IF x[Len(x)] = 0 THEN nat_trim(SubSeq(x, 1, Len(x) - 1))
    ELSE x

Limb(x, i) == IF i <= Len(x) THEN x[i] ELSE 0

RECURSIVE nat_cmp_from(_, _, _)
nat_cmp_from(a, b, i) ==
    IF i = 0 THEN 0
    ELSE IF a[i] < b[i] THEN -1
    ELSE IF a[i] > b[i] THEN 1
    ELSE nat_cmp_from(a, b, i - 1)

nat_cmp(a, b) ==
    IF Len(a) < Len(b) THEN -1
    ELSE IF Len(a) > Len(b) THEN 1
    ELSE nat_cmp_from(a, b, Len(a))

RECURSIVE nat_add_from(_, _, _, _)
nat_add_from(a, b, i, carry) ==
    IF i > Len(a) /\ i > Len(b)
    THEN IF carry = 0 THEN <<>> ELSE <<carry>>
    ELSE <<(Limb(a, i) + Limb(b, i) + carry) % BASE>>
         \o nat_add_from(a, b, i + 1, (Limb(a, i) + Limb(b, i) + carry) \div BASE)

nat_add(a, b) == nat_add_from(a, b, 1, 0)

(* a - b for a >= b. *)
RECURSIVE nat_sub_from(_, _, _, _)
nat_sub_from(a, b, i, borrow) ==
    IF i > Len(a) THEN <<>>
    ELSE <<(a[i] - Limb(b, i) - borrow + BASE) % BASE>>
         \o nat_sub_from(a, b, i + 1,
                         IF a[i] - Limb(b, i) - borrow < 0 THEN 1 ELSE 0)

nat_sub(a, b) == nat_trim(nat_sub_from(a, b, 1, 0))

RECURSIVE nat_mul_limb(_, _, _, _)
nat_mul_limb(a, m, i, carry) ==
    IF i > Len(a)
    THEN IF carry = 0 THEN <<>> ELSE <<carry>>
    ELSE <<(a[i] * m + carry) % BASE>>
         \o nat_mul_limb(a, m, i + 1, (a[i] * m + carry) \div BASE)

RECURSIVE nat_mul_from(_, _, _)
nat_mul_from(a, b, j) ==
    IF j > Len(b) THEN <<>>
    ELSE nat_add(nat_mul_limb(a, b[j], 1, 0), <<0>> \o nat_mul_from(a, b, j + 1))

nat_mul(a, b) == nat_trim(nat_mul_from(a, b, 1))

nat_odd(a) == a # <<>> /\ a[1] % 2 = 1

(* The powers of two up to BASE, and the number of bits of a digit. *)
TwoTo(j) ==
    <<1, 2, 4, 8, 16, 32, 64, 128, 256, 512, 1024, 2048, 4096, 8192, 16384, 32768>>[j + 1]

LimbBits == CHOOSE w \in 1..31 : TwoTo(w) = BASE

(* The number of bits of a digit n, and of its trailing zero bits (n > 0). *)
int_bits(n) == CHOOSE j \in 0..LimbBits : n < TwoTo(j) /\ (j = 0 \/ n >= TwoTo(j - 1))

int_zeros(n) == CHOOSE j \in 0..(LimbBits - 1) : n % TwoTo(j) = 0 /\ (n \div TwoTo(j)) % 2 = 1

nat_bits(a) ==
    IF a = <<>> THEN 0 ELSE LimbBits * (Len(a) - 1) + int_bits(a[Len(a)])

(* The number of trailing zero bits of a > 0. *)
nat_zeros_at(a, i) == LimbBits * (i - 1) + int_zeros(a[i])

nat_zeros(a) ==
    nat_zeros_at(a, CHOOSE i \in 1..Len(a) : a[i] # 0 /\ \A j \in 1..(i - 1) : a[j] = 0)

(* a * 2^k and a \div 2^k. *)
nat_shl(a, k) ==
    IF a = <<>> THEN <<>>
    ELSE [i \in 1..(k \div LimbBits) |-> 0] \o nat_mul_limb(a, TwoTo(k % LimbBits), 1, 0)

nat_shr_bits(a, j) ==
    nat_trim(<<>> \o [i \in 1..Len(a) |->
                         (a[i] \div TwoTo(j))
                         + (Limb(a, i + 1) % TwoTo(j)) * (BASE \div TwoTo(j))])

nat_shr(a, k) ==
    IF k \div LimbBits >= Len(a) THEN <<>>
    ELSE nat_shr_bits(SubSeq(a, (k \div LimbBits) + 1, Len(a)), k % LimbBits)

(* Long division, one quotient digit a step.  The divisor d is shifted to  *)
(* have its first digit at BASE / 2 or more, so that the quotient of the   *)
(* first two digits of what is left by the first digit of d is the         *)
(* quotient digit or exceeds it by at most two.                            *)
nat_times(a, m) == nat_trim(nat_mul_limb(a, m, 1, 0))

RECURSIVE nat_div_digit(_, _, _)
nat_div_digit(r, d, guess) ==
    IF nat_cmp(nat_times(d, guess), r) > 0 THEN nat_div_digit(r, d, guess - 1)
    ELSE guess

nat_div_guess(r, d) ==
    nat_div_digit(r, d,
        IF (Limb(r, Len(d) + 1) * BASE + Limb(r, Len(d))) \div d[Len(d)] < BASE
        THEN (Limb(r, Len(d) + 1) * BASE + Limb(r, Len(d))) \div d[Len(d)]
        ELSE BASE - 1)

nat_div_put(q, r, d, digit) ==
    [q |-> <<digit>> \o q, r |-> nat_sub(r, nat_times(d, digit))]

nat_div_step(q, r, d) == nat_div_put(q, r, d, nat_div_guess(r, d))

(* st.q holds the quotient digits found, one for each digit of n taken,    *)
(* from the most significant on.                                           *)
RECURSIVE nat_div_from(_, _, _)
nat_div_from(st, n, d) ==
    IF Len(st.q) = Len(n) THEN st
    ELSE nat_div_from(nat_div_step(st.q,
                                   nat_trim(<<n[Len(n) - Len(st.q)]>> \o st.r), d),
                      n, d)

nat_div_shifted(n, d, s) ==
    nat_div_from([q |-> <<>>, r |-> <<>>], nat_shl(n, s), nat_shl(d, s))

nat_div_result(st, s) == [q |-> nat_trim(st.q), r |-> nat_shr(st.r, s)]

(* Quotient q and remainder r of n by d > 0. *)
nat_divmod(n, d) ==
    nat_div_result(nat_div_shifted(n, d, LimbBits - int_bits(d[Len(d)])),
                   LimbBits - int_bits(d[Len(d)]))

-----------------------------------------------------------------------------
(* The doubles of the C code (IEEE 754 binary64, round to nearest, ties to *)
(* even).  A double is                                                     *)
(*   [k |-> "fin", neg, mant, exp]   (-1)^neg * mant * 2^exp, mant a       *)
(*                                   natural that is odd (zero: mant <<>>, *)
(*                                   exp 0; neg keeps the sign of zero);   *)
(*   [k |-> "inf", neg]              an infinity;                          *)
(*   [k |-> "nan"]                   not a number;                         *)
(*   [k |-> "opaque", class, of]     a double this model does not compute: *)
(*                                   what an uninitialised variable holds, *)
(*                                   what exp or log of libm return for an *)
(*                                   argument with an irrational result,   *)
(*                                   and what arithmetic makes of these.   *)
(*                                   of is the term that produced it and   *)
(*                                   class the set of the classes "neg",   *)
(*                                   "zero", "pos", "nan" it can be in.    *)
(* The arithmetic rounds as the hardware does: 1.0 / 3.0 is the double     *)
(* nearest to one third, and 0.1 * 3 - 0.3 is not zero.                    *)

DBL_MANT_DIG == 53
DBL_MAX_EXP == 1024
DBL_MIN_EXP == -1021

AllClasses == {"neg", "zero", "pos", "nan"}

DZero(neg) == [k |-> "fin", neg |-> neg, mant |-> <<>>, exp |-> 0]
Infinity(neg) == [k |-> "inf", neg |-> neg]
NaN == [k |-> "nan"]
Opaque(class, of) == [k |-> "opaque", class |-> class, of |-> of]

(* What the variable var of the frame working on at holds before anything  *)
(* is stored in it.  A frame of sensors_eval_expr is told from the others  *)
(* by its expression, by what its *result holds, which is a variable of    *)
(* the frame that called it, and by its place in the call of the API.      *)
Uninit(var, at) == Opaque(AllClasses, [f |-> "uninit", var |-> var, at |-> at])

dbl_norm(neg, mant, exp) ==
    IF mant = <<>> THEN DZero(neg)
    ELSE LET z == nat_zeros(mant)
         IN  [k |-> "fin", neg |-> neg, mant |-> nat_shr(mant, z), exp |-> exp + z]

dbl_range(neg, mant, exp) ==
    IF nat_bits(mant) + exp > DBL_MAX_EXP THEN Infinity(neg)
    ELSE dbl_norm(neg, mant, exp)

(* The double nearest to (-1)^neg * mant * 2^exp (plus a fraction of the   *)
(* last bit when sticky): DBL_MANT_DIG significant bits, the last one not  *)
(* below 2^(DBL_MIN_EXP - DBL_MANT_DIG), the weight of the last bit of a   *)
(* denormal.  The r low bits of mant are dropped, rounding to nearest,     *)
(* ties to even: q is what stays and c compares what is dropped with half  *)
(* of the last bit that stays.  A value that loses more bits than it has   *)
(* is below half of the least denormal and rounds to zero.                 *)
dbl_round(neg, mant, exp, sticky) ==
    LET r == Larger(0, Larger(nat_bits(mant) - DBL_MANT_DIG,
                              DBL_MIN_EXP - DBL_MANT_DIG - exp))
        q == nat_shr(mant, r)
        c == nat_cmp(nat_sub(mant, nat_shl(q, r)), nat_shl(<<1>>, r - 1))
    IN  IF r = 0 THEN dbl_range(neg, mant, exp)
        ELSE IF r > nat_bits(mant) THEN DZero(neg)
        ELSE dbl_range(neg,
                       IF c > 0 \/ (c = 0 /\ (sticky \/ nat_odd(q)))
                       THEN nat_add(q, <<1>>) ELSE q,
                       exp + r)

IntVal(n) == dbl_norm(n < 0, nat_of(Abs(n)), 0)

IsZero(v) ==
    \/ v.k = "fin" /\ v.mant = <<>>
    \/ v.k = "opaque" /\ v.class = {"zero"}

IsNegative(v) ==
    \/ v.k = "fin" /\ v.neg /\ v.mant # <<>>
    \/ v.k = "inf" /\ v.neg
    \/ v.k = "opaque" /\ v.class = {"neg"}

(* The classes of a double, and of the results of the operations on        *)
(* doubles of given classes ("pos" and "neg" include the infinities).      *)
ClassOf(v) ==
    IF v.k = "opaque" THEN v.class
    ELSE IF v.k = "nan" THEN {"nan"}
    ELSE IF v.k = "inf" THEN IF v.neg THEN {"neg"} ELSE {"pos"}
    ELSE IF v.mant = <<>> THEN {"zero"}
    ELSE IF v.neg THEN {"neg"} ELSE {"pos"}

ClassNeg(X) ==
    {IF x = "neg" THEN "pos" ELSE IF x = "pos" THEN "neg" ELSE x : x \in X}

ClassAdd(X, Y) ==
    UNION {IF x = "nan" \/ y = "nan" THEN {"nan"}
           ELSE IF x = "zero" THEN {y}
           ELSE IF y = "zero" THEN {x}
           ELSE IF x = y THEN {x}
           ELSE AllClasses : x \in X, y \in Y}

ClassMul(X, Y) ==
    UNION {IF x = "nan" \/ y = "nan" THEN {"nan"}
           ELSE IF x = "zero" /\ y = "zero" THEN {"zero"}
           ELSE IF x = "zero" \/ y = "zero" THEN {"zero", "nan"}
           ELSE {IF x = y THEN "pos" ELSE "neg", "zero"} : x \in X, y \in Y}

ClassDiv(X, Y) ==
    UNION {IF x = "nan" \/ y = "nan" THEN {"nan"}
           ELSE IF x = "zero" /\ y = "zero" THEN {"nan"}
           ELSE IF x = "zero" THEN {"zero"}
           ELSE IF y = "zero" THEN {"neg", "pos"}
           ELSE {IF x = y THEN "pos" ELSE "neg", "zero", "nan"} : x \in X, y \in Y}

(* -res1 *)
dbl_neg(a) ==
    IF a.k = "nan" THEN NaN
    ELSE IF a.k = "opaque"
    THEN Opaque(ClassNeg(a.class), [f |-> "negate", a |-> a])
    ELSE [a EXCEPT !.neg = ~ a.neg]

(* The sum of two finite doubles: the magnitudes A and B on the common     *)
(* exponent e are added or subtracted, and the result rounded.  An operand *)
(* more than 2 * DBL_MANT_DIG + 2 bits below the last bit of the other     *)
(* does not reach its rounding: the other is the sum.                      *)
fin_add(a, b) ==
    IF a.mant = <<>> /\ b.mant = <<>> THEN DZero(a.neg /\ b.neg)
    ELSE IF a.mant = <<>> THEN b
    ELSE IF b.mant = <<>> THEN a
    ELSE IF a.exp - b.exp > 2 * DBL_MANT_DIG + 2 THEN a
    ELSE IF b.exp - a.exp > 2 * DBL_MANT_DIG + 2 THEN b
    ELSE LET e == IF a.exp < b.exp THEN a.exp ELSE b.exp
             A == nat_shl(a.mant, a.exp - e)
             B == nat_shl(b.mant, b.exp - e)
             c == nat_cmp(A, B)
         IN  IF a.neg = b.neg THEN dbl_round(a.neg, nat_add(A, B), e, FALSE)
             ELSE IF c = 0 THEN DZero(FALSE)
             ELSE IF c > 0 THEN dbl_round(a.neg, nat_sub(A, B), e, FALSE)
             ELSE dbl_round(b.neg, nat_sub(B, A), e, FALSE)

(* res1 + res2 *)
dbl_add(a, b) ==
    IF a.k = "nan" \/ b.k = "nan" THEN NaN
    ELSE IF a.k = "opaque" \/ b.k = "opaque"
    THEN Opaque(ClassAdd(ClassOf(a), ClassOf(b)), [f |-> "add", a |-> a, b |-> b])
    ELSE IF a.k = "inf" /\ b.k = "inf" THEN IF a.neg = b.neg THEN a ELSE NaN
    ELSE IF a.k = "inf" THEN a
    ELSE IF b.k = "inf" THEN b
    ELSE fin_add(a, b)

(* res1 - res2.  exp and log give the same finite double for the same     *)
(* finite argument, so the difference of two such results is zero; the     *)
(* difference of the results for two arguments is not computed (they may   *)
(* round to the same double, as exp does near its underflow).              *)
dbl_sub(a, b) ==
    IF a.k = "nan" \/ b.k = "nan" THEN NaN
    ELSE IF a.k = "opaque" \/ b.k = "opaque"
    THEN IF /\ a.k = "opaque" /\ a = b
            /\ a.of.f \in {"exp", "log"} /\ a.of.a.k = "fin"
         THEN DZero(FALSE)
         ELSE Opaque(ClassAdd(ClassOf(a), ClassNeg(ClassOf(b))),
                     [f |-> "sub", a |-> a, b |-> b])
    ELSE dbl_add(a, dbl_neg(b))

(* res1 * res2 *)
dbl_mul(a, b) ==
    IF a.k = "nan" \/ b.k = "nan" THEN NaN
    ELSE IF a.k = "opaque" \/ b.k = "opaque"
    THEN Opaque(ClassMul(ClassOf(a), ClassOf(b)), [f |-> "multiply", a |-> a, b |-> b])
    ELSE IF a.k = "inf" \/ b.k = "inf"
    THEN IF "zero" \in ClassOf(a) \cup ClassOf(b) THEN NaN
         ELSE Infinity(a.neg # b.neg)
    ELSE IF a.mant = <<>> \/ b.mant = <<>> THEN DZero(a.neg # b.neg)
    ELSE dbl_round(a.neg # b.neg, nat_mul(a.mant, b.mant), a.exp + b.exp, FALSE)

(* The quotient of two finite doubles that are not zero: the quotient of   *)
(* the significands with DBL_MANT_DIG + 3 bits or more, rounded with the   *)
(* remainder as the sticky bit.                                            *)
fin_div(a, b) ==
    LET k == DBL_MANT_DIG + 3 + nat_bits(b.mant) - nat_bits(a.mant)
        qr == nat_divmod(nat_shl(a.mant, k), b.mant)
    IN  dbl_round(a.neg # b.neg, qr.q, a.exp - b.exp - k, qr.r # <<>>)

(* res1 / res2 *)
dbl_div(a, b) ==
    IF a.k = "nan" \/ b.k = "nan" THEN NaN
    ELSE IF a.k = "opaque" \/ b.k = "opaque"
    THEN Opaque(ClassDiv(ClassOf(a), ClassOf(b)), [f |-> "divide", a |-> a, b |-> b])
    ELSE IF a.k = "inf" THEN IF b.k = "inf" THEN NaN ELSE Infinity(a.neg # b.neg)
    ELSE IF b.k = "inf" THEN DZero(a.neg # b.neg)
    ELSE IF b.mant = <<>>
    THEN IF a.mant = <<>> THEN NaN ELSE Infinity(a.neg # b.neg)
    ELSE IF a.mant = <<>> THEN DZero(a.neg # b.neg)
    ELSE fin_div(a, b)

(* The double nearest to n / d, as the constant n.0 / d.0 of a C program. *)
Num(n, d) == dbl_div(IntVal(n), IntVal(d))

(* exp and log of libm.  The cases with a result that is known are         *)
(* computed: exp(0) = 1, log(1) = 0, log(0) = -inf, the infinities, and    *)
(* where the result of exp rounds to 0, to 1 or to +inf.  exp(a) is 0 up   *)
(* to underflow = -745.1332191019412, the last double below                *)
(* -1075 * log(2), and +inf above overflow = 709.782712893384, the last    *)
(* double below 1024 * log(2); it is 1 from -2^-54 to 2^-53.  Every other  *)
(* result is irrational and stays opaque, with the sign it has.            *)
dbl_exp(a) ==
    IF a.k = "nan" THEN NaN
    ELSE IF a.k = "opaque"
    THEN Opaque(UNION {IF x = "nan" THEN {"nan"}
                       ELSE IF x = "neg" THEN {"zero", "pos"}
                       ELSE {"pos"} : x \in a.class},
                [f |-> "exp", a |-> a])
    ELSE IF a.k = "inf" THEN IF a.neg THEN DZero(FALSE) ELSE a
    ELSE LET underflow == [k |-> "fin", neg |-> TRUE,
                           mant |-> <<6185, 21805, 4641, 93>>, exp |-> -42]
             overflow == [k |-> "fin", neg |-> FALSE,
                          mant |-> <<14831, 32244, 14603, 177>>, exp |-> -43]
             below == [k |-> "fin", neg |-> TRUE, mant |-> <<1>>, exp |-> -54]
             above == [k |-> "fin", neg |-> FALSE, mant |-> <<1>>, exp |-> -53]
         IN  IF ~ IsNegative(fin_add(underflow, dbl_neg(a))) THEN DZero(FALSE)
             ELSE IF IsNegative(fin_add(overflow, dbl_neg(a))) THEN Infinity(FALSE)
             ELSE IF /\ ~ IsNegative(fin_add(a, dbl_neg(below)))
                     /\ ~ IsNegative(fin_add(above, dbl_neg(a)))
             THEN IntVal(1)
             ELSE Opaque({"pos"}, [f |-> "exp", a |-> a])

dbl_log(a) ==
    IF a.k = "nan" THEN NaN
    ELSE IF a.k = "opaque"
    THEN Opaque(UNION {IF x = "nan" \/ x = "neg" THEN {"nan"}
                       ELSE IF x = "zero" THEN {"neg"}
                       ELSE {"neg", "zero", "pos"} : x \in a.class},
                [f |-> "log", a |-> a])
    ELSE IF a.k = "inf" THEN IF a.neg THEN NaN ELSE a
    ELSE IF a.mant = <<>> THEN Infinity(TRUE)
    ELSE IF a.neg THEN NaN
    ELSE IF a = IntVal(1) THEN DZero(FALSE)
    ELSE IF IsNegative(fin_add(a, IntVal(-1))) THEN Opaque({"neg"}, [f |-> "log", a |-> a])
    ELSE Opaque({"pos"}, [f |-> "log", a |-> a])

(* The tests res2 == 0.0 and res1 < 0.0.  On an opaque double v that can   *)
(* be in the class tested and in another, the outcome is not computed: it  *)
(* is what libm, the build and the stack make of v.  junk.found is the     *)
(* set of the tests that find what they look for, each a record            *)
(* [ev |-> "test", v |-> v, is |-> class]; a test on the same double has   *)
(* the same outcome wherever it is made, tests on different doubles are    *)
(* independent.  junk.at is the place of the frame at work in the call of  *)
(* the API: the detected chip and the set statement, then 0 for the call   *)
(* of sensors_set_feature, then 1 or 2 for each descent into a first or a  *)
(* second operand.  What the stack holds is not the same from one frame to *)
(* the next.                                                               *)
EqualsZero(v, junk) ==
    IF v.k = "opaque" /\ "zero" \in v.class /\ v.class # {"zero"}
    THEN [ev |-> "test", v |-> v, is |-> "zero"] \in junk.found
    ELSE IsZero(v)

LessThanZero(v, junk) ==
    IF v.k = "opaque" /\ "neg" \in v.class /\ v.class # {"neg"}
    THEN [ev |-> "test", v |-> v, is |-> "neg"] \in junk.found
    ELSE IsNegative(v)

(* The trace after a test of v for class: a test whose outcome is junk's   *)
(* is noted in the trace, for the caller of the API to know which tests a  *)
(* call has made.                                                          *)
Tested(tr, v, class) ==
    IF v.k = "opaque" /\ class \in v.class /\ v.class # {class}
    THEN Append(tr, [ev |-> "test", v |-> v, is |-> class])
    ELSE tr

-----------------------------------------------------------------------------
(* Expression trees (sensors_expr).                                        *)

NULL_expr == [kind |-> "NULL"]
Val(v) == [kind |-> "val", val |-> v]
Source == [kind |-> "source"]
Var(name) == [kind |-> "var", var |-> name]
Op1(op, e) == [kind |-> "sub", op |-> op, sub1 |-> e, sub2 |-> NULL_expr]
Op2(op, e1, e2) == [kind |-> "sub", op |-> op, sub1 |-> e1, sub2 |-> e2]

-----------------------------------------------------------------------------
(* The raw I/O backend (proc.c): hw.val holds the registers of the         *)
(* features of the detected chips, hw.rfail and hw.wfail the accesses that *)
(* fail.  A write stores the value; a read returns the value stored.       *)

HasMode(mode, bit) == (mode \div bit) % 2 = 1

sensors_read_proc(name, feature, hw) ==
    IF <<name, feature>> \in DOMAIN hw.val /\ <<name, feature>> \notin hw.rfail
    THEN [rc |-> 0, val |-> hw.val[<<name, feature>>]]
    ELSE [rc |-> - SENSORS_ERR_PROC]

sensors_write_proc(name, feature, value, hw) ==
    IF <<name, feature>> \in DOMAIN hw.val /\ <<name, feature>> \notin hw.wfail
    THEN [rc |-> 0, hw |-> [hw EXCEPT !.val[<<name, feature>>] = value]]
    ELSE [rc |-> - SENSORS_ERR_PROC, hw |-> hw]

-----------------------------------------------------------------------------
(* The scan for a compute statement, in sensors_get_feature and in         *)
(* sensors_set_feature.  st is [expr, final_expr]; alt_feature is the      *)
(* feature pointer of the compute_mapping, or NULL.                        *)

RECURSIVE get_computes_loop(_, _, _, _, _)
get_computes_loop(main_name, alt_feature, computes, i, st) ==
    IF st.final_expr # 0 \/ i > Len(computes) THEN st
    ELSE IF strcasecmp(main_name, computes[i].name) = 0
    THEN get_computes_loop(main_name, alt_feature, computes, i + 1,
                           [expr |-> computes[i].from_proc, final_expr |-> 1])
    ELSE IF alt_feature # NULL_feature /\
            strcasecmp(Deref(alt_feature).name, computes[i].name) = 0
    THEN get_computes_loop(main_name, alt_feature, computes, i + 1,
                           [expr |-> computes[i].from_proc, final_expr |-> 0])
    ELSE get_computes_loop(main_name, alt_feature, computes, i + 1, st)

(* The outer loop, left only once a match on the main name is found.       *)
RECURSIVE get_chips_loop_until_final(_, _, _, _, _, _)
get_chips_loop_until_final(name, main_name, alt_feature, chip, st, trace) ==
    IF st.final_expr # 0 THEN [expr |-> st.expr, io |-> trace]
    ELSE LET nr == sensors_for_all_config_chips(name, chip)
             tr == Append(trace, EvConfig(name, nr))
         IN  IF nr = 0 THEN [expr |-> st.expr, io |-> tr]
             ELSE get_chips_loop_until_final(name, main_name, alt_feature, nr,
                      get_computes_loop(main_name, alt_feature,
                                        sensors_config_chips[nr].computes, 1, st),
                      tr)

RECURSIVE get_chips_loop(_, _, _, _, _, _)
get_chips_loop(name, main_name, alt_feature, chip, st, trace) ==
    IF st.expr # NULL_expr THEN [expr |-> st.expr, io |-> trace]
    ELSE LET nr == sensors_for_all_config_chips(name, chip)
             tr == Append(trace, EvConfig(name, nr))
         IN  IF nr = 0 THEN [expr |-> st.expr, io |-> tr]
             ELSE get_chips_loop(name, main_name, alt_feature, nr,
                      get_computes_loop(main_name, alt_feature,
                                        sensors_config_chips[nr].computes, 1, st),
                      tr)

(* In sensors_set_feature a match on the main name takes                   *)
(* chip->computes->to_proc, the "to" expression of the first compute       *)
(* statement of the entry.                                                 *)
RECURSIVE set_computes_loop(_, _, _, _, _)
set_computes_loop(main_name, alt_feature, computes, i, st) ==
    IF st.final_expr # 0 \/ i > Len(computes) THEN st
    ELSE IF strcasecmp(main_name, computes[i].name) = 0
    THEN set_computes_loop(main_name, alt_feature, computes, i + 1,
                           [expr |-> computes[1].to_proc, final_expr |-> 1])
    ELSE IF alt_feature # NULL_feature /\
            strcasecmp(Deref(alt_feature).name, computes[i].name) = 0
    THEN set_computes_loop(main_name, alt_feature, computes, i + 1,
                           [expr |-> computes[i].to_proc, final_expr |-> 0])
    ELSE set_computes_loop(main_name, alt_feature, computes, i + 1, st)

RECURSIVE set_chips_loop(_, _, _, _, _, _)
set_chips_loop(name, main_name, alt_feature, chip, st, trace) ==
    IF st.expr # NULL_expr THEN [expr |-> st.expr, io |-> trace]
    ELSE LET nr == sensors_for_all_config_chips(name, chip)
             tr == Append(trace, EvConfig(name, nr))
         IN  IF nr = 0 THEN [expr |-> st.expr, io |-> tr]
             ELSE set_chips_loop(name, main_name, alt_feature, nr,
                      set_computes_loop(main_name, alt_feature,
                                        sensors_config_chips[nr].computes, 1, st),
                      tr)

-----------------------------------------------------------------------------
(* sensors_eval_expr and sensors_get_feature.  Both return                 *)
(* [rc, result, io]: the return code, the content of *result after the     *)
(* call, and the trace.  old is the content of *result before the call: a  *)
(* path that does not assign *result leaves it.  The locals res1 and res2  *)
(* of sensors_eval_expr are not initialised: until a sub-expression stores *)
(* into them they hold Uninit, a double of any class, and junk holds the   *)
(* outcomes of the tests the code makes on doubles whose class is open,    *)
(* each noted in the trace.  hw is the backend, which neither function     *)
(* changes.  A function is written as a chain of steps, each of which      *)
(* receives what the steps before it computed.                             *)

RECURSIVE sensors_eval_expr(_, _, _, _, _, _)
RECURSIVE sensors_get_feature(_, _, _, _, _)

(* The switch on expr->data.subexpr.op, with the log of a value <= 0       *)
(* refused.                                                                *)
eval_op_log_nonpositive(op, res1, res2, old, tr, junk) ==
    CASE op = "add" -> [rc |-> 0, result |-> dbl_add(res1, res2), io |-> tr]
      [] op = "sub" -> [rc |-> 0, result |-> dbl_sub(res1, res2), io |-> tr]
      [] op = "multiply" -> [rc |-> 0, result |-> dbl_mul(res1, res2), io |-> tr]
      [] op = "divide" ->
            IF EqualsZero(res2, junk)
            THEN [rc |-> - SENSORS_ERR_DIV_ZERO, result |-> old,
                  io |-> Tested(tr, res2, "zero")]
            ELSE [rc |-> 0, result |-> dbl_div(res1, res2),
                  io |-> Tested(tr, res2, "zero")]
      [] op = "negate" -> [rc |-> 0, result |-> dbl_neg(res1), io |-> tr]
      [] op = "exp" -> [rc |-> 0, result |-> dbl_exp(res1), io |-> tr]
      [] op = "log" ->
            IF LessThanZero(res1, junk) \/ EqualsZero(res1, junk)
            THEN [rc |-> - SENSORS_ERR_DIV_ZERO, result |-> old,
                  io |-> Tested(Tested(tr, res1, "neg"), res1, "zero")]
            ELSE [rc |-> 0, result |-> dbl_log(res1),
                  io |-> Tested(Tested(tr, res1, "neg"), res1, "zero")]

(* The switch on expr->data.subexpr.op.                                    *)
eval_op(op, res1, res2, old, tr, junk) ==
    CASE op = "add" -> [rc |-> 0, result |-> dbl_add(res1, res2), io |-> tr]
      [] op = "sub" -> [rc |-> 0, result |-> dbl_sub(res1, res2), io |-> tr]
      [] op = "multiply" -> [rc |-> 0, result |-> dbl_mul(res1, res2), io |-> tr]
      [] op = "divide" ->
            IF EqualsZero(res2, junk)
            THEN [rc |-> - SENSORS_ERR_DIV_ZERO, result |-> old,
                  io |-> Tested(tr, res2, "zero")]
            ELSE [rc |-> 0, result |-> dbl_div(res1, res2),
                  io |-> Tested(tr, res2, "zero")]
      [] op = "negate" -> [rc |-> 0, result |-> dbl_neg(res1), io |-> tr]
      [] op = "exp" -> [rc |-> 0, result |-> dbl_exp(res1), io |-> tr]
      [] op = "log" ->
            IF LessThanZero(res1, junk)
            THEN [rc |-> - SENSORS_ERR_DIV_ZERO, result |-> old,
                  io |-> Tested(tr, res1, "neg")]
            ELSE [rc |-> 0, result |-> dbl_log(res1),
                  io |-> Tested(tr, res1, "neg")]

(* r1 and r2 are the evaluations of sub1 and sub2; r2 is not made when r1  *)
(* failed.                                                                 *)
eval_sub(op, old, r1, r2, junk) ==
    IF r1.rc # 0 THEN [rc |-> r1.rc, result |-> old, io |-> r1.io]
    ELSE IF r2.rc # 0 THEN [rc |-> r2.rc, result |-> old, io |-> r1.io \o r2.io]
    ELSE eval_op(op, r1.result, r2.result, old, r1.io \o r2.io, junk)

(* g is what sensors_get_feature returned: "if (!(res = ...)) return res;  *)
(* return 0;" returns 0 whatever it is.                                    *)
eval_var_got(tr, g) == [rc |-> 0, result |-> g.result, io |-> tr \o g.io]

eval_var(chipname, expr, old, hw, junk, feature) ==
    IF feature = NULL_feature
    THEN [rc |-> SENSORS_ERR_NO_ENTRY, result |-> old,
          io |-> <<EvCatalog(chipname.prefix, expr.var)>>]
    ELSE eval_var_got(<<EvCatalog(chipname.prefix, expr.var)>>,
                      sensors_get_feature(chipname, Deref(feature).number,
                                          old, hw, junk))

sensors_eval_expr(chipname, expr, val, old, hw, junk) ==
    CASE expr.kind = "val" -> [rc |-> 0, result |-> expr.val, io |-> <<>>]
      [] expr.kind = "source" -> [rc |-> 0, result |-> val, io |-> <<>>]
      [] expr.kind = "var" ->
            eval_var(chipname, expr, old, hw, junk,
                     sensors_lookup_feature_name(chipname.prefix, expr.var))
      [] expr.kind = "sub" ->
            eval_sub(expr.op, old,
                     sensors_eval_expr(chipname, expr.sub1, val,
                                       Uninit("res1", <<expr, old, junk.at>>), hw,
                                       [junk EXCEPT !.at = Append(@, 1)]),
                     IF expr.sub2 # NULL_expr
                     THEN sensors_eval_expr(chipname, expr.sub2, val,
                                            Uninit("res2", <<expr, old, junk.at>>), hw,
                                            [junk EXCEPT !.at = Append(@, 2)])
                     ELSE [rc |-> 0, result |-> Uninit("res2", <<expr, old, junk.at>>),
                           io |-> <<>>],
                     junk)

(* The trace of the catalog lookups of a feature and of its mapping.       *)
LookupTrace(name, feature, mapping) ==
    IF mapping = SENSORS_NO_MAPPING THEN <<EvCatalog(name.prefix, feature)>>
    ELSE <<EvCatalog(name.prefix, feature), EvCatalog(name.prefix, mapping)>>

get_feature_eval(tr, e) == [rc |-> e.rc, result |-> e.result, io |-> tr \o e.io]

get_feature_read(name, feature, old, hw, junk, scan, rd) ==
    IF rd.rc # 0
    THEN [rc |-> - SENSORS_ERR_PROC, result |-> old,
          io |-> Append(scan.io, EvRead(name, feature, FALSE))]
    ELSE IF scan.expr = NULL_expr
    THEN [rc |-> 0, result |-> rd.val,
          io |-> Append(scan.io, EvRead(name, feature, TRUE))]
    ELSE get_feature_eval(Append(scan.io, EvRead(name, feature, TRUE)),
                          sensors_eval_expr(name, scan.expr, rd.val, old, hw, junk))

get_feature_found(name, feature, old, hw, junk, main, alt_feature) ==
    IF main.compute_mapping # SENSORS_NO_MAPPING /\ alt_feature = NULL_feature
    THEN [rc |-> - SENSORS_ERR_NO_ENTRY, result |-> old,
          io |-> LookupTrace(name, feature, main.compute_mapping)]
    ELSE IF ~ HasMode(main.mode, SENSORS_MODE_R)
    THEN [rc |-> - SENSORS_ERR_ACCESS_R, result |-> old,
          io |-> LookupTrace(name, feature, main.compute_mapping)]
    ELSE get_feature_read(name, feature, old, hw, junk,
             get_chips_loop(name, main.name, alt_feature, 0,
                            [expr |-> NULL_expr, final_expr |-> 0],
                            LookupTrace(name, feature, main.compute_mapping)),
             sensors_read_proc(name, feature, hw))

get_feature_main(name, feature, old, hw, junk, main_feature) ==
    IF main_feature = NULL_feature
    THEN [rc |-> - SENSORS_ERR_NO_ENTRY, result |-> old,
          io |-> <<EvCatalog(name.prefix, feature)>>]
    ELSE get_feature_found(name, feature, old, hw, junk, Deref(main_feature),
             IF Deref(main_feature).compute_mapping = SENSORS_NO_MAPPING
             THEN NULL_feature
             ELSE sensors_lookup_feature_nr(name.prefix,
                                            Deref(main_feature).compute_mapping))

sensors_get_feature(name, feature, old, hw, junk) ==
    IF sensors_chip_name_has_wildcards(name) # 0
    THEN [rc |-> - SENSORS_ERR_WILDCARDS, result |-> old, io |-> <<>>]
    ELSE get_feature_main(name, feature, old, hw, junk,
                          sensors_lookup_feature_nr(name.prefix, feature))

(* sensors_set_feature returns [rc, io, hw]: hw is the backend after it.   *)
set_feature_written(name, feature, to_write, tr, wr) ==
    [rc |-> IF wr.rc # 0 THEN - SENSORS_ERR_PROC ELSE 0,
     io |-> Append(tr, EvWrite(name, feature, to_write, wr.rc = 0)),
     hw |-> wr.hw]

set_feature_write(name, feature, hw, tr, e) ==
    IF e.rc # 0
    THEN [rc |-> e.rc, io |-> tr \o e.io, hw |-> hw]
    ELSE set_feature_written(name, feature, e.result, tr \o e.io,
                             sensors_write_proc(name, feature, e.result, hw))

set_feature_scanned(name, feature, value, hw, junk, scan) ==
    set_feature_write(name, feature, hw, scan.io,
        IF scan.expr # NULL_expr
        THEN sensors_eval_expr(name, scan.expr, value, value, hw, junk)
        ELSE [rc |-> 0, result |-> value, io |-> <<>>])

set_feature_found(name, feature, value, hw, junk, main, alt_feature) ==
    IF main.compute_mapping # SENSORS_NO_MAPPING /\ alt_feature = NULL_feature
    THEN [rc |-> - SENSORS_ERR_NO_ENTRY,
          io |-> LookupTrace(name, feature, main.compute_mapping), hw |-> hw]
    ELSE IF ~ HasMode(main.mode, SENSORS_MODE_W)
    THEN [rc |-> - SENSORS_ERR_ACCESS_W,
          io |-> LookupTrace(name, feature, main.compute_mapping), hw |-> hw]
    ELSE set_feature_scanned(name, feature, value, hw, junk,
             set_chips_loop(name, main.name, alt_feature, 0,
                            [expr |-> NULL_expr, final_expr |-> 0],
                            LookupTrace(name, feature, main.compute_mapping)))

set_feature_main(name, feature, value, hw, junk, main_feature) ==
    IF main_feature = NULL_feature
    THEN [rc |-> - SENSORS_ERR_NO_ENTRY,
          io |-> <<EvCatalog(name.prefix, feature)>>, hw |-> hw]
    ELSE set_feature_found(name, feature, value, hw, junk, Deref(main_feature),
             IF Deref(main_feature).compute_mapping = SENSORS_NO_MAPPING
             THEN NULL_feature
             ELSE sensors_lookup_feature_nr(name.prefix,
                                            Deref(main_feature).compute_mapping))

sensors_set_feature(name, feature, value, hw, junk) ==
    IF sensors_chip_name_has_wildcards(name) # 0
    THEN [rc |-> - SENSORS_ERR_WILDCARDS, io |-> <<>>, hw |-> hw]
    ELSE set_feature_main(name, feature, value, hw, junk,
                          sensors_lookup_feature_nr(name.prefix, feature))

-----------------------------------------------------------------------------
(* sensors_do_this_chip_sets.  st is the state of the function:            *)
(* [feature_list, err, value, hw, io, junk, frame]; value is the local the *)
(* expression of a set statement is evaluated into, not initialised and    *)
(* kept from one statement to the next; junk is passed on to the           *)
(* evaluations, with the place of the statement after frame, the place of  *)
(* the function itself.                                                    *)

EvSet(name, nr, i) == [ev |-> "set", name |-> name, nr |-> nr, i |-> i]

(* A call of sensors_parse_error, with the value assigned to err beside it. *)
EvParseError(msg, lineno, err) ==
    [ev |-> "parse_error", msg |-> msg, lineno |-> lineno, err |-> err]

InList(feature_list, feature_nr) ==
    \E j \in 1..Len(feature_list) : feature_list[j] = feature_nr

(* d is the set statement, s what sensors_set_feature returned.            *)
set_statement_set(d, st, tr, feature_nr, value, s) ==
    IF s.rc # 0
    THEN [st EXCEPT !.feature_list = Append(@, feature_nr),
                    !.err = s.rc,
                    !.value = value,
                    !.hw = s.hw,
                    !.io = Append(tr \o s.io,
                               EvParseError("Failed to set feature", d.lineno, s.rc))]
    ELSE [st EXCEPT !.feature_list = Append(@, feature_nr),
                    !.value = value,
                    !.hw = s.hw,
                    !.io = tr \o s.io]

(* e is what sensors_eval_expr returned.                                   *)
set_statement_eval(name, d, st, tr, feature_nr, e) ==
    IF e.rc # 0
    THEN [st EXCEPT !.feature_list = Append(@, feature_nr),
                    !.err = e.rc,
                    !.value = e.result,
                    !.io = Append(tr \o e.io,
                               EvParseError("Error parsing expression", d.lineno, e.rc))]
    ELSE set_statement_set(d, st, tr \o e.io, feature_nr, e.result,
             sensors_set_feature(name, feature_nr, e.result, st.hw,
                                 [st.junk EXCEPT !.at = Append(@, 0)]))

(* The lookup of the feature, without the check of feature_list.           *)
set_statement_feature_no_check(name, d, st, tr, feature) ==
    IF feature = NULL_feature
    THEN [st EXCEPT !.err = SENSORS_ERR_NO_ENTRY,
                    !.io = Append(tr, EvParseError("Unknown feature name", d.lineno,
                                                   SENSORS_ERR_NO_ENTRY))]
    ELSE set_statement_eval(name, d, st, tr, Deref(feature).number,
             sensors_eval_expr(name, d.value, IntVal(0), st.value, st.hw, st.junk))

(* The lookup of the feature and the check of feature_list.                *)
set_statement_feature(name, d, st, tr, feature) ==
    IF feature = NULL_feature
    THEN [st EXCEPT !.err = SENSORS_ERR_NO_ENTRY,
                    !.io = Append(tr, EvParseError("Unknown feature name", d.lineno,
                                                   SENSORS_ERR_NO_ENTRY))]
    ELSE IF InList(st.feature_list, Deref(feature).number)
    THEN [st EXCEPT !.io = tr]
    ELSE set_statement_eval(name, d, st, tr, Deref(feature).number,
             sensors_eval_expr(name, d.value, IntVal(0), st.value, st.hw, st.junk))

(* The body of the inner loop, for set statement i of config entry nr.     *)
set_statement(name, nr, i, st) ==
    set_statement_feature(name, sensors_config_chips[nr].sets[i],
        [st EXCEPT !.junk.at = st.frame \o <<nr, i>>],
        st.io \o <<EvSet(name, nr, i),
                   EvCatalog(name.prefix, sensors_config_chips[nr].sets[i].name)>>,
        sensors_lookup_feature_name(name.prefix,
                                    sensors_config_chips[nr].sets[i].name))

(* The inner loop, left at the first statement that fails.                 *)
RECURSIVE sets_loop_stop_on_error(_, _, _, _)
sets_loop_stop_on_error(name, nr, i, st) ==
    IF i > Len(sensors_config_chips[nr].sets) \/ st.err # 0 THEN st
    ELSE sets_loop_stop_on_error(name, nr, i + 1, set_statement(name, nr, i, st))

RECURSIVE sets_loop(_, _, _, _)
sets_loop(name, nr, i, st) ==
    IF i > Len(sensors_config_chips[nr].sets) THEN st
    ELSE sets_loop(name, nr, i + 1, set_statement(name, nr, i, st))

RECURSIVE sets_chips_loop(_, _, _)
sets_chips_loop(name, chip, st) ==
    LET nr == sensors_for_all_config_chips(name, chip)
    IN  IF nr = 0 THEN [st EXCEPT !.io = Append(@, EvConfig(name, nr))]
        ELSE sets_chips_loop(name, nr,
                 sets_loop(name, nr, 1,
                           [st EXCEPT !.io = Append(@, EvConfig(name, nr))]))

this_chip_sets_done(st) == [rc |-> st.err, hw |-> st.hw, io |-> st.io]

(* Returns [rc, hw, io]; io continues the trace given.                     *)
sensors_do_this_chip_sets(name, hw, junk, trace) ==
    this_chip_sets_done(
        sets_chips_loop(name, 0,
            [feature_list |-> <<>>, err |-> 0,
             value |-> Uninit("value", <<name, junk.at>>),
             hw |-> hw, io |-> trace, junk |-> junk, frame |-> junk.at]))

-----------------------------------------------------------------------------
(* sensors_get_detected_chips, sensors_do_chip_sets, sensors_do_all_sets   *)

(* nr counts the detected chips from 0, as in C; res is the index of the   *)
(* chip in sensors_proc_chips, 0 for NULL; nr is *nr after the call.       *)
sensors_get_detected_chips(nr) ==
    [res |-> IF nr >= Len(sensors_proc_chips) THEN 0 ELSE nr + 1, nr |-> nr + 1]

(* st is [res, hw, io]; t is what sensors_do_this_chip_sets returned.      *)
chip_sets_done(st, t) ==
    [res |-> IF st.res = 0 THEN t.rc ELSE st.res, hw |-> t.hw, io |-> t.io]

RECURSIVE do_chip_sets_loop(_, _, _, _)
do_chip_sets_loop(name, nr, junk, st) ==
    LET g == sensors_get_detected_chips(nr)
    IN  IF g.res = 0 THEN st
        ELSE do_chip_sets_loop(name, g.nr, junk,
                 IF sensors_match_chip(name, sensors_proc_chips[g.res]) # 0
                 THEN chip_sets_done(st,
                          sensors_do_this_chip_sets(sensors_proc_chips[g.res], st.hw,
                              [junk EXCEPT !.at = Append(@, g.res)], st.io))
                 ELSE st)

sensors_do_chip_sets(name, hw, junk) ==
    do_chip_sets_loop(name, 0, junk, [res |-> 0, hw |-> hw, io |-> <<>>])

sensors_do_all_sets(hw, junk) ==
    sensors_do_chip_sets([prefix |-> SENSORS_CHIP_NAME_PREFIX_ANY,
                          bus |-> SENSORS_CHIP_NAME_BUS_ANY,
                          addr |-> SENSORS_CHIP_NAME_ADDR_ANY], hw, junk)

-----------------------------------------------------------------------------
(* The data the library works on.  The catalog, the config and the         *)
(* detected chips are built by other parts of the library and are read     *)
(* only here; Init draws them from the sets below.                         *)

MaxItems == 3        \* statements (labels, ignores, computes, sets) in a config

SeqUpTo(S, n) == UNION { [1..k -> S] : k \in 0..n }

Feature(number, name, mapping, compute_mapping, mode) ==
    [number |-> number, name |-> name, mapping |-> mapping,
     compute_mapping |-> compute_mapping, mode |-> mode]

SENSORS_MODE_RW == SENSORS_MODE_R + SENSORS_MODE_W

(* Family "c": a (1); b (2), a sub-feature of a for labels, ignores and    *)
(* computes; e (3), whose mappings name no feature; r (4) read-only;       *)
(* w (5) write-only.                                                       *)
CatalogMain ==
    << [prefix |-> <<99>>,
        feature |-> << Feature(1, <<97>>, SENSORS_NO_MAPPING, SENSORS_NO_MAPPING, SENSORS_MODE_RW),
                       Feature(2, <<98>>, 1, 1, SENSORS_MODE_RW),
                       Feature(3, <<101>>, 9, 9, SENSORS_MODE_RW),
                       Feature(4, <<114>>, SENSORS_NO_MAPPING, SENSORS_NO_MAPPING, SENSORS_MODE_R),
                       Feature(5, <<119>>, SENSORS_NO_MAPPING, SENSORS_NO_MAPPING, SENSORS_MODE_W) >>] >>

(* The same family behind an unrelated one, with b mapped to a for labels  *)
(* and ignores only, and a mapped to b for computes only.                  *)
CatalogSplit ==
    << [prefix |-> <<100>>,
        feature |-> << Feature(1, <<98>>, SENSORS_NO_MAPPING, SENSORS_NO_MAPPING, SENSORS_MODE_R) >>],
       [prefix |-> <<67>>,
        feature |-> << Feature(2, <<98>>, 1, SENSORS_NO_MAPPING, SENSORS_MODE_RW),
                       Feature(1, <<97>>, SENSORS_NO_MAPPING, 2, SENSORS_MODE_RW),
                       Feature(3, <<101>>, 9, 9, SENSORS_MODE_RW) >>] >>

Catalogs == {CatalogMain, CatalogSplit}

Chip(prefix, bus, addr) == [prefix |-> prefix, bus |-> bus, addr |-> addr]

TheChip == Chip(<<99>>, 0, 45)
OtherChip == Chip(<<99>>, 1, 45)

(* The chip descriptions of a config entry.                                *)
FitsBoth == << Chip(<<100>>, SENSORS_CHIP_NAME_BUS_ISA, SENSORS_CHIP_NAME_ADDR_ANY),
               Chip(<<67>>, SENSORS_CHIP_NAME_BUS_ANY_I2C, SENSORS_CHIP_NAME_ADDR_ANY) >>
FitsOther == << Chip(<<99>>, 1, SENSORS_CHIP_NAME_ADDR_ANY) >>
FitsOf(brk) == IF brk = "other" THEN FitsOther ELSE FitsBoth

(* A config is drawn as a sequence of statements, each of which continues  *)
(* the entry of the one before ("same") or opens a new entry, for all      *)
(* chips of the family ("new") or for OtherChip only ("other").            *)
Breaks == {"same", "new", "other"}

RECURSIVE Entries(_, _, _)
Entries(items, k, acc) ==
    IF k > Len(items) THEN acc
    ELSE IF items[k].brk = "same" /\ acc # <<>>
    THEN Entries(items, k + 1,
                 [acc EXCEPT ![Len(acc)].items = Append(@, items[k].x)])
    ELSE Entries(items, k + 1,
                 Append(acc, [chips |-> FitsOf(items[k].brk), items |-> <<items[k].x>>]))

Items(X) == SeqUpTo([brk : Breaks, x : X], MaxItems)

EmptyEntry(chips) ==
    [chips |-> chips, labels |-> <<>>, ignores |-> <<>>, computes |-> <<>>,
     sets |-> <<>>]

(* The statement at position i of entry nr carries a text, an expression   *)
(* or a line number that names the position.                               *)
Tag(nr, i) == 10 * nr + i

LabelConfig(items) ==
    LET es == Entries(items, 1, <<>>)
    IN  [nr \in 1..Len(es) |->
            [EmptyEntry(es[nr].chips) EXCEPT !.labels =
                [i \in 1..Len(es[nr].items) |->
                    [name |-> es[nr].items[i], value |-> <<48 + nr, 48 + i>>]]]]

IgnoreConfig(items) ==
    LET es == Entries(items, 1, <<>>)
    IN  [nr \in 1..Len(es) |->
            [EmptyEntry(es[nr].chips) EXCEPT !.ignores =
                [i \in 1..Len(es[nr].items) |-> [name |-> es[nr].items[i]]]]]

ComputeConfig(items) ==
    LET es == Entries(items, 1, <<>>)
    IN  [nr \in 1..Len(es) |->
            [EmptyEntry(es[nr].chips) EXCEPT !.computes =
                [i \in 1..Len(es[nr].items) |->
                    [name |-> es[nr].items[i],
                     from_proc |-> Op2("add", Source, Val(IntVal(Tag(nr, i)))),
                     to_proc |-> Op2("sub", Source, Val(IntVal(Tag(nr, i))))]]]]

(* A set statement: a feature name and the kind of its expression.         *)
SetExpr(kind, nr, i) ==
    CASE kind = "val" -> Val(IntVal(Tag(nr, i)))
      [] kind = "div0" -> Op2("divide", Val(IntVal(Tag(nr, i))), Op2("sub", Source, Source))
      [] kind = "novar" -> Op1("negate", Var(<<122>>))

SetConfig(items) ==
    LET es == Entries(items, 1, <<>>)
    IN  [nr \in 1..Len(es) |->
            [EmptyEntry(es[nr].chips) EXCEPT !.sets =
                [i \in 1..Len(es[nr].items) |->
                    [name |-> es[nr].items[i].name,
                     value |-> SetExpr(es[nr].items[i].kind, nr, i),
                     lineno |-> Tag(nr, i)]]]]

(* The backend: a register per feature of the catalog for each chip, and   *)
(* the accesses that fail.                                                 *)
Registers(chips) ==
    [key \in chips \X (1..5) |-> IntVal(100 + key[2])]

Backend(chips, rfail, wfail) ==
    [val |-> Registers(chips), rfail |-> rfail, wfail |-> wfail]

(* The outcomes of the call F of the API (sensors_get_feature,             *)
(* sensors_set_feature, sensors_eval_expr, sensors_do_chip_sets or         *)
(* sensors_do_all_sets), one for each way its tests on doubles of open     *)
(* class (lines 399 and 410) can go: [junk, r], where junk.found is the    *)
(* set of the tests that found what they looked for and r what F returned, *)
(* with the notes of the tests taken from its trace.  The call is first    *)
(* made with every test finding nothing; for each test t it has made, it   *)
(* is made again with t finding what it looks for, and so on for the tests *)
(* these calls make.                                                       *)
Outcomes(F(_)) ==
    LET Tests(r) == {r.io[k] : k \in {i \in 1..Len(r.io) : r.io[i].ev = "test"}}
        Split(s) ==
            IF Tests(s.r) \subseteq s.seen THEN {s}
            ELSE LET t == CHOOSE t \in Tests(s.r) \ s.seen : TRUE
                 IN  {[junk |-> s.junk, seen |-> s.seen \cup {t}, r |-> s.r],
                      [junk |-> s.junk \cup {t}, seen |-> s.seen \cup {t},
                       r |-> F(s.junk \cup {t})]}
        RECURSIVE Made(_)
        Made(S) ==
            IF \A s \in S : Tests(s.r) \subseteq s.seen THEN S
            ELSE Made(UNION {Split(s) : s \in S})
    IN  {[junk |-> [found |-> s.junk \cap Tests(s.r), at |-> <<>>],
          r |-> [s.r EXCEPT !.io = SelectSeq(@, LAMBDA e : e.ev # "test")]] :
            s \in Made({[junk |-> {}, seen |-> {}, r |-> F({})]})}

(* What the caller of sensors_get_feature or sensors_eval_expr has in      *)
(* *result before the call.                                                *)
OldResults == {IntVal(-7)}

NoCall == [op |-> "none"]

-----------------------------------------------------------------------------
(* The calls of the API.  Each action is one call: call' records its       *)
(* arguments and what it returned, io' its trace, proc' the backend after  *)
(* it.  A behaviour makes one call on the data drawn by Init.  A call has  *)
(* one outcome for each way its tests on doubles of open class can go     *)
(* (Outcomes); a call that makes no such test has one outcome.             *)

Unchanged_data ==
    UNCHANGED <<sensors_chip_features_list, sensors_config_chips, sensors_proc_chips>>

MatchChipOn(patterns) ==
    /\ call = NoCall
    /\ \E chip1 \in patterns, chip2 \in patterns :
            /\ call' = [op |-> "match_chip", chip1 |-> chip1, chip2 |-> chip2,
                        rc |-> sensors_match_chip(chip1, chip2)]
            /\ io' = <<>>
            /\ UNCHANGED proc
            /\ Unchanged_data

GetLabelOn(names, features) ==
    /\ call = NoCall
    /\ \E name \in names, feature \in features :
            \E r \in {sensors_get_label(name, feature)} :
                /\ call' = [op |-> "get_label", name |-> name, feature |-> feature,
                            rc |-> r.rc, result |-> r.result]
                /\ io' = r.io
                /\ UNCHANGED proc
                /\ Unchanged_data

GetIgnoredOn(names, features) ==
    /\ call = NoCall
    /\ \E name \in names, feature \in features :
            \E r \in {sensors_get_ignored(name, feature)} :
                /\ call' = [op |-> "get_ignored", name |-> name, feature |-> feature,
                            rc |-> r.rc]
                /\ io' = r.io
                /\ UNCHANGED proc
                /\ Unchanged_data

GetFeatureOn(names, features) ==
    /\ call = NoCall
    /\ \E name \in names, feature \in features, old \in OldResults :
            \E s \in Outcomes(LAMBDA found :
                                  sensors_get_feature(name, feature, old, proc,
                                                      [found |-> found, at |-> <<>>])) :
                /\ call' = [op |-> "get_feature", name |-> name, feature |-> feature,
                            old |-> old, junk |-> s.junk, rc |-> s.r.rc,
                            result |-> s.r.result]
                /\ io' = s.r.io
                /\ UNCHANGED proc
                /\ Unchanged_data

SetFeatureOn(names, features, values) ==
    /\ call = NoCall
    /\ \E name \in names, feature \in features, value \in values :
            \E s \in Outcomes(LAMBDA found :
                                  sensors_set_feature(name, feature, value, proc,
                                                      [found |-> found, at |-> <<>>])) :
                /\ call' = [op |-> "set_feature", name |-> name, feature |-> feature,
                            value |-> value, junk |-> s.junk, rc |-> s.r.rc,
                            hw0 |-> proc]
                /\ io' = s.r.io
                /\ proc' = s.r.hw
                /\ Unchanged_data

EvalExprOn(exprs, values) ==
    /\ call = NoCall
    /\ \E expr \in exprs, val \in values, old \in OldResults :
            \E s \in Outcomes(LAMBDA found :
                                  sensors_eval_expr(TheChip, expr, val, old, proc,
                                                    [found |-> found, at |-> <<>>])) :
                /\ call' = [op |-> "eval_expr", expr |-> expr, val |-> val,
                            old |-> old, junk |-> s.junk, rc |-> s.r.rc,
                            result |-> s.r.result]
                /\ io' = s.r.io
                /\ UNCHANGED proc
                /\ Unchanged_data

DoChipSetsOn(names) ==
    /\ call = NoCall
    /\ \E name \in names :
            \E s \in Outcomes(LAMBDA found :
                                  sensors_do_chip_sets(name, proc,
                                                       [found |-> found, at |-> <<>>])) :
                /\ call' = [op |-> "do_chip_sets", name |-> name, junk |-> s.junk,
                            rc |-> s.r.res]
                /\ io' = s.r.io
                /\ proc' = s.r.hw
                /\ Unchanged_data

DoAllSets ==
    /\ call = NoCall
    /\ \E s \in Outcomes(LAMBDA found :
                          sensors_do_all_sets(proc, [found |-> found, at |-> <<>>])) :
                /\ call' = [op |-> "do_chip_sets",
                            name |-> Chip(SENSORS_CHIP_NAME_PREFIX_ANY,
                                          SENSORS_CHIP_NAME_BUS_ANY,
                                          SENSORS_CHIP_NAME_ADDR_ANY),
                            junk |-> s.junk, rc |-> s.r.res]
                /\ io' = s.r.io
                /\ proc' = s.r.hw
                /\ Unchanged_data

-----------------------------------------------------------------------------
(* Chip-name matching on its own: every pair of chip descriptions.         *)

Prefixes == {SENSORS_CHIP_NAME_PREFIX_ANY, <<99>>, <<67>>, <<100>>, <<99, 100>>}
Buses == {SENSORS_CHIP_NAME_BUS_ISA, SENSORS_CHIP_NAME_BUS_PCI,
          SENSORS_CHIP_NAME_BUS_DUMMY, SENSORS_CHIP_NAME_BUS_ANY_I2C,
          SENSORS_CHIP_NAME_BUS_ANY, 0, 1}
Addrs == {SENSORS_CHIP_NAME_ADDR_ANY, 45, 46}
Patterns == [prefix : Prefixes, bus : Buses, addr : Addrs]

InitMatch ==
    /\ sensors_chip_features_list = CatalogMain
    /\ sensors_config_chips = <<>>
    /\ sensors_proc_chips = <<>>
    /\ proc = Backend({}, {}, {})
    /\ io = <<>>
    /\ call = NoCall

MatchChip == MatchChipOn(Patterns)

NextMatch == MatchChip

SpecMatch == InitMatch /\ [][NextMatch]_vars

\* C10: sensors_match_chip is symmetric: the value returned for (chip1,
\* chip2) is the value it returns for (chip2, chip1), for all descriptions,
\* wildcard or not.
C10_MatchSymmetric ==
    call.op = "match_chip" =>
        call.rc = sensors_match_chip(call.chip2, call.chip1)

\* A match between different descriptions that rests on a wildcard on each
\* side: any I2C bus against the dummy bus, a prefix against any prefix.
C10_Witness ==
    /\ call.op = "match_chip"
    /\ call.rc = 1
    /\ call.chip1.bus = SENSORS_CHIP_NAME_BUS_ANY_I2C
    /\ call.chip2.bus = SENSORS_CHIP_NAME_BUS_DUMMY
    /\ call.chip1.prefix # SENSORS_CHIP_NAME_PREFIX_ANY
    /\ call.chip2.prefix = SENSORS_CHIP_NAME_PREFIX_ANY
    /\ call.chip1.addr # call.chip2.addr

-----------------------------------------------------------------------------
(* Notions the properties below are stated with.                           *)

SameName(s, t) ==
    /\ Len(s) = Len(t)
    /\ \A i \in 1..Len(s) : tolower(s[i]) = tolower(t[i])

Concrete(name) ==
    /\ name.prefix # SENSORS_CHIP_NAME_PREFIX_ANY
    /\ name.bus \notin {SENSORS_CHIP_NAME_BUS_ANY, SENSORS_CHIP_NAME_BUS_ANY_I2C}
    /\ name.addr # SENSORS_CHIP_NAME_ADDR_ANY

Max(S) == CHOOSE x \in S : \A y \in S : y <= x
Min(S) == CHOOSE x \in S : \A y \in S : x <= y

(* The config entries one of whose chip descriptions matches the chip.     *)
MatchingEntries(name) ==
    { nr \in 1..Len(sensors_config_chips) :
        \E k \in 1..Len(sensors_config_chips[nr].chips) :
            sensors_match_chip(sensors_config_chips[nr].chips[k], name) = 1 }

InCatalog(name, feature) ==
    sensors_lookup_feature_nr(name.prefix, feature) # NULL_feature

Descriptor(name, feature) == Deref(sensors_lookup_feature_nr(name.prefix, feature))

Named(list, fname) == { i \in 1..Len(list) : SameName(list[i].name, fname) }

AccessChips == {TheChip, OtherChip, Chip(<<67>>, 0, SENSORS_CHIP_NAME_ADDR_ANY)}

World ==
    /\ sensors_chip_features_list \in Catalogs
    /\ sensors_proc_chips = <<TheChip, OtherChip>>
    /\ proc = Backend({TheChip, OtherChip}, {}, {})
    /\ io = <<>>
    /\ call = NoCall

-----------------------------------------------------------------------------
(* Labels.                                                                 *)

LabelNames == {<<97>>, <<65>>, <<98>>}

InitLabel ==
    /\ World
    /\ sensors_config_chips \in { LabelConfig(items) : items \in Items(LabelNames) }

GetLabel == GetLabelOn(AccessChips, {1, 2, 7})

NextLabel == GetLabel

SpecLabel == InitLabel /\ [][NextLabel]_vars

LabelEntries(name, fname) ==
    { nr \in MatchingEntries(name) :
        Named(sensors_config_chips[nr].labels, fname) # {} }

\* C3: sensors_get_label on a concrete chip and a feature of the catalog
\* succeeds and returns the text of a label of the latest-declared matching
\* config entry that has a label named (case-insensitively) as the feature,
\* the first such label of that entry; the feature's own name when no
\* matching entry has one.
C3_LabelOfLatestEntry ==
    (call.op = "get_label" /\ Concrete(call.name) /\ InCatalog(call.name, call.feature)) =>
        LET fname == Descriptor(call.name, call.feature).name
            es == LabelEntries(call.name, fname)
        IN  /\ call.rc = 0
            /\ call.result =
                 IF es = {} THEN fname
                 ELSE LET labels == sensors_config_chips[Max(es)].labels
                      IN  labels[Min(Named(labels, fname))].value

\* Two matching entries both label the feature, under names that differ in
\* case, an entry that does not match the chip stands after them, and the
\* text returned is the later matching entry's.
C3_Witness ==
    /\ call.op = "get_label" /\ call.rc = 0 /\ Concrete(call.name)
    /\ InCatalog(call.name, call.feature)
    /\ LET fname == Descriptor(call.name, call.feature).name
           es == LabelEntries(call.name, fname)
       IN  /\ Cardinality(es) = 2
           /\ Max(es) < Len(sensors_config_chips)
           /\ \E i \in 1..Len(sensors_config_chips[Max(es)].labels) :
                /\ sensors_config_chips[Max(es)].labels[i].name # fname
                /\ call.result = sensors_config_chips[Max(es)].labels[i].value
           /\ \A i \in 1..Len(sensors_config_chips[Min(es)].labels) :
                call.result # sensors_config_chips[Min(es)].labels[i].value

-----------------------------------------------------------------------------
(* Ignore statements.                                                      *)

IgnoreNames == {<<97>>, <<98>>, <<66>>}

InitIgnored ==
    /\ World
    /\ sensors_config_chips \in { IgnoreConfig(items) : items \in Items(IgnoreNames) }

GetIgnored == GetIgnoredOn(AccessChips, {1, 2, 3, 7})

NextIgnored == GetIgnored

SpecIgnored == InitIgnored /\ [][NextIgnored]_vars

Listing(name, fname) ==
    { nr \in MatchingEntries(name) :
        Named(sensors_config_chips[nr].ignores, fname) # {} }

HasMapping(name, feature) ==
    Descriptor(name, feature).mapping # SENSORS_NO_MAPPING

MappingName(name, feature) ==
    Descriptor(name, Descriptor(name, feature).mapping).name

\* C8: for a concrete chip and a feature that is in the catalog together
\* with the target of its mapping, sensors_get_ignored returns 0 (ignored)
\* or 1 (valid); it returns 0 whenever a matching config entry lists the
\* feature's own name among its ignores, and 1 only when no matching entry
\* lists the feature's name or the name of the mapping's target.
C8_ExactIgnoreWins ==
    ( /\ call.op = "get_ignored" /\ Concrete(call.name)
      /\ InCatalog(call.name, call.feature)
      /\ HasMapping(call.name, call.feature) =>
            InCatalog(call.name, Descriptor(call.name, call.feature).mapping) ) =>
        LET fname == Descriptor(call.name, call.feature).name
        IN  /\ call.rc \in {0, 1}
            /\ Listing(call.name, fname) # {} => call.rc = 0
            /\ call.rc = 1 =>
                 /\ Listing(call.name, fname) = {}
                 /\ HasMapping(call.name, call.feature) =>
                        Listing(call.name, MappingName(call.name, call.feature)) = {}

\* The feature is ignored through its own name, written in another case in
\* the oldest of the matching entries, while a newer matching entry lists
\* only the name of the mapping's target.
C8_Witness ==
    /\ call.op = "get_ignored" /\ Concrete(call.name) /\ call.rc = 0
    /\ InCatalog(call.name, call.feature)
    /\ HasMapping(call.name, call.feature)
    /\ InCatalog(call.name, Descriptor(call.name, call.feature).mapping)
    /\ LET fname == Descriptor(call.name, call.feature).name
           own == Listing(call.name, fname)
           alt == Listing(call.name, MappingName(call.name, call.feature))
       IN  /\ Cardinality(own) = 1
           /\ alt # {}
           /\ Max(alt) > Max(own)
           /\ Max(own) = Min(MatchingEntries(call.name))
           /\ \A i \in Named(sensors_config_chips[Max(own)].ignores, fname) :
                sensors_config_chips[Max(own)].ignores[i].name # fname

-----------------------------------------------------------------------------
(* The four accessors on chip names with and without wildcards.            *)

WildChips ==
    { Chip(SENSORS_CHIP_NAME_PREFIX_ANY, 0, 45),
      Chip(<<99>>, SENSORS_CHIP_NAME_BUS_ANY, 45),
      Chip(<<99>>, SENSORS_CHIP_NAME_BUS_ANY_I2C, 45),
      Chip(<<99>>, 0, SENSORS_CHIP_NAME_ADDR_ANY),
      Chip(SENSORS_CHIP_NAME_PREFIX_ANY, SENSORS_CHIP_NAME_BUS_ANY,
           SENSORS_CHIP_NAME_ADDR_ANY) }

ConcreteChips ==
    { TheChip, Chip(<<99>>, SENSORS_CHIP_NAME_BUS_DUMMY, 45),
      Chip(<<122>>, SENSORS_CHIP_NAME_BUS_ISA, 45) }

WildItems == << [brk |-> "new", x |-> <<97>>], [brk |-> "same", x |-> <<98>>] >>

WildConfigs ==
    { <<>>,
      LabelConfig(WildItems),
      ComputeConfig(WildItems) \o IgnoreConfig(WildItems) }

InitWild ==
    /\ World
    /\ sensors_config_chips \in WildConfigs

WildGetLabel == GetLabelOn(WildChips \cup ConcreteChips, {1, 2, 7})
WildGetIgnored == GetIgnoredOn(WildChips \cup ConcreteChips, {1, 2, 7})
WildGetFeature == GetFeatureOn(WildChips \cup ConcreteChips, {1, 2, 7})
WildSetFeature == SetFeatureOn(WildChips \cup ConcreteChips, {1, 2, 7}, {IntVal(5)})

NextWild == WildGetLabel \/ WildGetIgnored \/ WildGetFeature \/ WildSetFeature

SpecWild == InitWild /\ [][NextWild]_vars

HasWildcard(name) ==
    \/ name.prefix = SENSORS_CHIP_NAME_PREFIX_ANY
    \/ name.bus = SENSORS_CHIP_NAME_BUS_ANY
    \/ name.bus = SENSORS_CHIP_NAME_BUS_ANY_I2C
    \/ name.addr = SENSORS_CHIP_NAME_ADDR_ANY

\* C7: sensors_get_label, sensors_get_ignored, sensors_get_feature and
\* sensors_set_feature, called with a chip name that has a wildcard (prefix
\* ANY, bus ANY or ANY_I2C, address ANY), return -SENSORS_ERR_WILDCARDS
\* whatever the feature, the catalog and the config are, having made no
\* catalog lookup, no config lookup and no call to the backend, and leave
\* the backend as it was.
C7_WildcardsRejected ==
    ( /\ call.op \in {"get_label", "get_ignored", "get_feature", "set_feature"}
      /\ HasWildcard(call.name) ) =>
        /\ call.rc = - SENSORS_ERR_WILDCARDS
        /\ io = <<>>
        /\ call.op = "set_feature" => proc = call.hw0

\* A set of a writable feature of the catalog, with a compute statement in
\* the config, on a name whose only wildcard is the bus "any I2C", is
\* rejected.
C7_Witness ==
    /\ call.op = "set_feature"
    /\ call.name = Chip(<<99>>, SENSORS_CHIP_NAME_BUS_ANY_I2C, 45)
    /\ call.feature = 1
    /\ InCatalog(call.name, call.feature)
    /\ sensors_config_chips # <<>>
    /\ sensors_config_chips[1].computes # <<>>
    /\ call.rc = - SENSORS_ERR_WILDCARDS
    /\ io = <<>>

-----------------------------------------------------------------------------
(* Compute statements: sensors_get_feature and sensors_set_feature.        *)

ComputeNames == {<<97>>, <<98>>, <<66>>}

ComputeFeatures == {1, 2, 3, 4, 5, 7}

InitCompute ==
    /\ World
    /\ sensors_config_chips \in { ComputeConfig(items) : items \in Items(ComputeNames) }

ComputeGet == GetFeatureOn(AccessChips, ComputeFeatures)
ComputeSet == SetFeatureOn(AccessChips, ComputeFeatures, {IntVal(5)})

NextCompute == ComputeGet \/ ComputeSet

SpecCompute == InitCompute /\ [][NextCompute]_vars

(* The feature and the target of its compute_mapping are in the catalog.   *)
Resolves(name, feature) ==
    /\ InCatalog(name, feature)
    /\ \/ Descriptor(name, feature).compute_mapping = SENSORS_NO_MAPPING
       \/ InCatalog(name, Descriptor(name, feature).compute_mapping)

(* The compute statements of entry nr named as the feature, and those      *)
(* named as the target of its compute_mapping.                             *)
MainNamed(nr, name, feature) ==
    Named(sensors_config_chips[nr].computes, Descriptor(name, feature).name)

AltNamed(nr, name, feature) ==
    IF Descriptor(name, feature).compute_mapping = SENSORS_NO_MAPPING THEN {}
    ELSE Named(sensors_config_chips[nr].computes,
               Descriptor(name, Descriptor(name, feature).compute_mapping).name)

ComputeEntries(name, feature) ==
    { nr \in MatchingEntries(name) :
        MainNamed(nr, name, feature) \cup AltNamed(nr, name, feature) # {} }

(* The statement the scan selects: in the newest matching entry that has   *)
(* an applicable statement, the first one named as the feature, or else    *)
(* the last one named as the target of the compute_mapping.                *)
Selected(name, feature) ==
    LET nr == Max(ComputeEntries(name, feature))
    IN  sensors_config_chips[nr].computes[
            IF MainNamed(nr, name, feature) # {}
            THEN Min(MainNamed(nr, name, feature))
            ELSE Max(AltNamed(nr, name, feature))]

(* An expression without variables applied to a source value: it makes no *)
(* test on a double of open class, whatever junk is.                       *)
Applied(expr, val) ==
    sensors_eval_expr(TheChip, expr, val, val, proc,
                      [found |-> {}, at |-> <<>>]).result

Readable(name, feature) == HasMode(Descriptor(name, feature).mode, SENSORS_MODE_R)
Writable(name, feature) == HasMode(Descriptor(name, feature).mode, SENSORS_MODE_W)

\* C4 as stated: whenever a matching config entry holds a compute statement
\* named as the main feature, the value sensors_get_feature returns is the
\* "from" expression of a main-named statement applied to the raw value,
\* also when an alternate-named statement stands in a newer entry.
C4_MainNameAlwaysWins ==
    ( /\ call.op = "get_feature" /\ Concrete(call.name)
      /\ Resolves(call.name, call.feature) /\ Readable(call.name, call.feature)
      /\ \E nr \in MatchingEntries(call.name) :
            MainNamed(nr, call.name, call.feature) # {} ) =>
        /\ call.rc = 0
        /\ \E nr \in MatchingEntries(call.name) :
             \E i \in MainNamed(nr, call.name, call.feature) :
                call.result = Applied(sensors_config_chips[nr].computes[i].from_proc,
                                      proc.val[<<call.name, call.feature>>])

\* C4, amended: sensors_get_feature on a concrete chip and a readable
\* feature that resolves in the catalog returns the raw value transformed
\* by the "from" expression of the statement selected in the newest
\* matching entry that holds any applicable compute statement: the first
\* statement of that entry named as the main feature, else its last
\* statement named as the alternate; older entries are not consulted, and
\* without an applicable statement the raw value is returned.
C4_NewestEntryDecides ==
    ( /\ call.op = "get_feature" /\ Concrete(call.name)
      /\ Resolves(call.name, call.feature) /\ Readable(call.name, call.feature) ) =>
        /\ call.rc = 0
        /\ call.result =
             IF ComputeEntries(call.name, call.feature) = {}
             THEN proc.val[<<call.name, call.feature>>]
             ELSE Applied(Selected(call.name, call.feature).from_proc,
                          proc.val[<<call.name, call.feature>>])

\* A read of a feature with a compute_mapping where an older matching entry
\* has a statement named as the feature, the newest applicable entry has
\* only one named as the alternate, and the value returned is the newer
\* entry's.
C4_Witness ==
    /\ call.op = "get_feature" /\ call.rc = 0 /\ Concrete(call.name)
    /\ Resolves(call.name, call.feature) /\ Readable(call.name, call.feature)
    /\ LET es == ComputeEntries(call.name, call.feature)
       IN  /\ Cardinality(es) >= 2
           /\ MainNamed(Max(es), call.name, call.feature) = {}
           /\ MainNamed(Min(es), call.name, call.feature) # {}
           /\ call.result = Applied(Selected(call.name, call.feature).from_proc,
                                    proc.val[<<call.name, call.feature>>])

(* The value of the last write to the backend in the trace.                *)
Writes == { k \in 1..Len(io) : io[k].ev = "write" }

\* C2: sensors_set_feature on a concrete chip and a writable feature that
\* resolves in the catalog makes one write to the backend, of the caller's
\* value transformed by the "to" expression of the compute statement the
\* scan selected, wherever that statement stands in its entry, and of the
\* caller's value itself when no statement applies.
C2_WritesSelectedToProc ==
    ( /\ call.op = "set_feature" /\ Concrete(call.name)
      /\ Resolves(call.name, call.feature) /\ Writable(call.name, call.feature) ) =>
        /\ call.rc = 0
        /\ Cardinality(Writes) = 1
        /\ \A k \in Writes :
             /\ io[k].name = call.name /\ io[k].feature = call.feature
             /\ io[k].value =
                  IF ComputeEntries(call.name, call.feature) = {} THEN call.value
                  ELSE Applied(Selected(call.name, call.feature).to_proc, call.value)

-----------------------------------------------------------------------------
(* Set statements: sensors_do_chip_sets and sensors_do_all_sets.           *)

(* a and b are writable, A is a in another letter case, with a value or    *)
(* with an expression that divides by zero, z is in no catalog, r is       *)
(* read-only.                                                              *)
SetItems ==
    { [name |-> <<97>>, kind |-> "val"], [name |-> <<65>>, kind |-> "val"],
      [name |-> <<65>>, kind |-> "div0"],
      [name |-> <<98>>, kind |-> "val"], [name |-> <<122>>, kind |-> "val"],
      [name |-> <<114>>, kind |-> "val"] }

SetQueries == {TheChip}

InitSets ==
    /\ sensors_chip_features_list = CatalogMain
    /\ sensors_proc_chips = <<TheChip, OtherChip>>
    /\ proc = Backend({TheChip, OtherChip}, {}, {})
    /\ io = <<>>
    /\ call = NoCall
    /\ sensors_config_chips \in { SetConfig(items) : items \in Items(SetItems) }

DoChipSets == DoChipSetsOn(SetQueries)

NextSets == DoChipSets \/ DoAllSets

SpecSets == InitSets /\ [][NextSets]_vars

(* The events of the trace of one kind.                                    *)
Events(kind) == { k \in 1..Len(io) : io[k].ev = kind }

\* C1: in one call of sensors_do_chip_sets or sensors_do_all_sets over
\* distinct detected chips the backend write is called at most once for a
\* chip and a feature number, however many set statements of however many
\* matching entries name the feature, in whatever letter case.
C1_OneWritePerFeature ==
    call.op = "do_chip_sets" =>
        \A k1 \in Events("write"), k2 \in Events("write") :
            (io[k1].name = io[k2].name /\ io[k1].feature = io[k2].feature) => k1 = k2

(* The set statements of the entries matching a chip, as <<nr, i>>, and    *)
(* the feature a statement names.                                          *)
Statements(name) ==
    UNION { { <<nr, i>> : i \in 1..Len(sensors_config_chips[nr].sets) } :
            nr \in MatchingEntries(name) }

StatementFeature(name, d) ==
    sensors_lookup_feature_name(name.prefix, sensors_config_chips[d[1]].sets[d[2]].name)

SetsOf(name, feature) ==
    { d \in Statements(name) :
        /\ StatementFeature(name, d) # NULL_feature
        /\ Deref(StatementFeature(name, d)).number = feature }

\* A feature is named by three set statements that apply to the chip, in
\* two entries and in two letter cases, each with a value that evaluates
\* and could be written, and is written once.
C1_Witness ==
    /\ call.op = "do_chip_sets"
    /\ \E k \in Events("write") :
         /\ io[k].name = TheChip
         /\ \A k2 \in Events("write") :
                (io[k2].name = TheChip /\ io[k2].feature = io[k].feature) => k2 = k
         /\ LET ds == SetsOf(TheChip, io[k].feature)
            IN  /\ Cardinality(ds) = 3
                /\ Cardinality({ d[1] : d \in ds }) = 2
                /\ Cardinality({ sensors_config_chips[d[1]].sets[d[2]].name : d \in ds }) = 2
                /\ \A d \in ds : sensors_config_chips[d[1]].sets[d[2]].value.kind = "val"

(* The detected chips a query matches.                                     *)
Queried(query) ==
    { sensors_proc_chips[c] : c \in { c \in 1..Len(sensors_proc_chips) :
                                      sensors_match_chip(query, sensors_proc_chips[c]) = 1 } }

(* The events between the start of a set statement, at k, and the start of *)
(* the next one; sets are the events that start a statement.               *)
Segment(k, sets) ==
    { j \in (k + 1)..Len(io) : \A k2 \in sets : k2 > k => j < k2 }

(* At k starts the statement that is the first of its chip to name the     *)
(* feature.                                                                *)
FirstOfFeature(k, sets, feature) ==
    /\ feature # NULL_feature
    /\ \A k2 \in sets :
         (k2 < k /\ io[k2].name = io[k].name) =>
            StatementFeature(io[k].name, <<io[k2].nr, io[k2].i>>) # feature

\* C5: in sensors_do_chip_sets and sensors_do_all_sets no failure stops the
\* pass.  Every set statement of every config entry matching a detected
\* chip that the query matches is processed, whether or not a statement
\* before it failed (unknown feature name, failed evaluation, failed
\* sensors_set_feature); a processed statement that is the first of its
\* chip to name its feature reaches the backend write or is itself reported
\* as failed; and when any statement is reported as failed the call returns
\* a non-zero value.
C5_FailureDoesNotStopThePass ==
    call.op = "do_chip_sets" =>
        LET sets == Events("set")
        IN  /\ \A name \in Queried(call.name) : \A d \in Statements(name) :
                 \E k \in sets :
                    /\ io[k] = EvSet(name, d[1], d[2])
                    /\ FirstOfFeature(k, sets, StatementFeature(name, d)) =>
                         \E j \in Segment(k, sets) :
                            \/ /\ io[j].ev = "write" /\ io[j].name = name
                               /\ io[j].feature = Deref(StatementFeature(name, d)).number
                            \/ /\ io[j].ev = "parse_error"
                               /\ io[j].lineno = sensors_config_chips[d[1]].sets[d[2]].lineno
            /\ Events("parse_error") # {} => call.rc # 0

\* Two statements fail for the first chip, for different reasons, a later
\* statement of that chip is written, the second chip is written after it,
\* and the call returns an error.
C5_Witness ==
    /\ call.op = "do_chip_sets" /\ call.rc # 0
    /\ \E p1 \in Events("parse_error"), p2 \in Events("parse_error"),
          w1 \in Events("write"), w2 \in Events("write") :
         /\ p1 < p2 /\ p2 < w1 /\ w1 < w2
         /\ io[p1].msg # io[p2].msg
         /\ io[w1].name = sensors_proc_chips[1] /\ io[w1].ok
         /\ io[w2].name = sensors_proc_chips[2] /\ io[w2].ok
         /\ \A k \in Events("set") : k < w1 => io[k].name = sensors_proc_chips[1]

\* C6: the value sensors_do_chip_sets and sensors_do_all_sets return is the
\* error of the first statement that failed, in processing order, and 0
\* exactly when no statement failed.
C6_ReturnsFirstError ==
    call.op = "do_chip_sets" =>
        call.rc = IF Events("parse_error") = {} THEN 0
                  ELSE io[Min(Events("parse_error"))].err

-----------------------------------------------------------------------------
(* Expressions on their own: one operator over operands that succeed and   *)
(* operands that fail.                                                     *)

SourceValues == {IntVal(0), IntVal(2), IntVal(-3)}

(* Operands with a number for value, whatever the source value is,        *)
(* operands that fail (a division by zero, an unknown feature name), and   *)
(* the write-only feature w, whose evaluation returns 0 and stores         *)
(* nothing.  1 / (@ + 3) is rounded for the source values 0 and 2, and     *)
(* 0.1 * 3 - 0.3 is 2^-54, not zero.  exp(-745.13325) underflows to 0,     *)
(* exp(1) - exp(2) is a double this model does not compute, and 1 / w      *)
(* divides by what res2 happens to hold: two of these in one expression    *)
(* make two tests with outcomes of their own.                              *)
Operands ==
    { Val(IntVal(0)), Val(IntVal(4)), Val(Num(-1, 2)), Source,
      Op2("sub", Source, Val(IntVal(2))),
      Op1("negate", Op2("multiply", Source, Val(IntVal(3)))),
      Op2("divide", Val(IntVal(1)), Op2("add", Source, Val(IntVal(3)))),
      Op2("sub", Op2("multiply", Val(Num(1, 10)), Val(IntVal(3))), Val(Num(3, 10))),
      Op1("negate", Var(<<122>>)),
      Var(<<119>>),
      Op1("exp", Val(Num(-74513325, 100000))),
      Op2("sub", Op1("exp", Val(IntVal(1))), Op1("exp", Val(IntVal(2)))),
      Op2("divide", Val(IntVal(1)), Var(<<119>>)) }

EvalExprs ==
    { Op2(op, e1, e2) : op \in {"add", "sub", "multiply", "divide"},
                        e1 \in Operands, e2 \in Operands }
    \cup { Op1(op, e1) : op \in {"negate", "exp", "log"}, e1 \in Operands }

InitEval ==
    /\ sensors_chip_features_list = CatalogMain
    /\ sensors_config_chips = <<>>
    /\ sensors_proc_chips = <<TheChip>>
    /\ proc = Backend({TheChip}, {}, {})
    /\ io = <<>>
    /\ call = NoCall

EvalExpr == EvalExprOn(EvalExprs, SourceValues)

NextEval == EvalExpr

SpecEval == InitEval /\ [][NextEval]_vars

(* The evaluations of the operands of the call's expression, into res1     *)
(* and res2.                                                               *)
Operand1 ==
    sensors_eval_expr(TheChip, call.expr.sub1, call.val,
                      Uninit("res1", <<call.expr, call.old, call.junk.at>>), proc,
                      [call.junk EXCEPT !.at = Append(@, 1)])

Operand2 ==
    IF call.expr.sub2 # NULL_expr
    THEN sensors_eval_expr(TheChip, call.expr.sub2, call.val,
                           Uninit("res2", <<call.expr, call.old, call.junk.at>>), proc,
                           [call.junk EXCEPT !.at = Append(@, 2)])
    ELSE [rc |-> 0, result |-> Uninit("res2", <<call.expr, call.old, call.junk.at>>),
          io |-> <<>>]

OperandsSucceed == Operand1.rc = 0 /\ Operand2.rc = 0

(* The result is what the operator of the C language, or the function of   *)
(* libm, makes of the doubles v1 and v2.                                   *)
ResultIs(op, result, v1, v2) ==
    CASE op = "add" -> result = dbl_add(v1, v2)
      [] op = "sub" -> result = dbl_sub(v1, v2)
      [] op = "multiply" -> result = dbl_mul(v1, v2)
      [] op = "divide" -> result = dbl_div(v1, v2)
      [] op = "negate" -> result = dbl_neg(v1)
      [] op = "exp" -> result = dbl_exp(v1)
      [] op = "log" -> result = dbl_log(v1)

\* C9: when the operands of an expression evaluate successfully,
\* sensors_eval_expr fails on a division exactly when the divisor's value
\* is zero and on a logarithm exactly when the operand's value is negative,
\* both with -SENSORS_ERR_DIV_ZERO and without storing a result; in every
\* other case it returns 0 and the result is the sum, difference, product,
\* quotient, negation, exponential or logarithm of the operands' values.
\* The value of an operand that returned 0 without storing anything is
\* the one res1 or res2 happens to hold.
C9_DivAndLogFailures ==
    (call.op = "eval_expr" /\ call.expr.kind = "sub" /\ OperandsSucceed) =>
        LET v1 == Operand1.result
            v2 == Operand2.result
            fails == \/ call.expr.op = "divide" /\ EqualsZero(v2, call.junk)
                     \/ call.expr.op = "log" /\ LessThanZero(v1, call.junk)
        IN  /\ fails => call.rc = - SENSORS_ERR_DIV_ZERO /\ call.result = call.old
            /\ ~ fails => /\ call.rc = 0
                          /\ ResultIs(call.expr.op, call.result, v1, v2)

\* A division whose operands are both computed and succeed, with a divisor
\* whose value is zero for the source value of the call, fails with
\* -SENSORS_ERR_DIV_ZERO, and a division by 0.1 * 3 - 0.3, which rounding
\* keeps from zero, succeeds.
C9_Witness ==
    /\ call.op = "eval_expr" /\ call.expr.kind = "sub" /\ OperandsSucceed
    /\ call.expr.op = "divide"
    /\ call.expr.sub1.kind = "sub" /\ call.expr.sub2.kind = "sub"
    /\ ~ IsZero(call.val)
    /\ IsZero(Operand2.result)
    /\ call.rc = - SENSORS_ERR_DIV_ZERO

-----------------------------------------------------------------------------
(* References to features in expressions: a variable evaluated on its own, *)
(* under an operator, and as the value of a set statement.                 *)

(* a, b and r can be read, w is write-only, the compute_mapping of e names *)
(* no feature, z is in no catalog.                                         *)
VarNames == {<<97>>, <<98>>, <<114>>, <<119>>, <<101>>, <<122>>}

VarExprs ==
    { Var(n) : n \in VarNames }
    \cup { Op1("negate", Var(n)) : n \in VarNames }
    \cup { Op2("add", Source, Var(n)) : n \in VarNames }

(* One entry for all chips of the family, with the set statements          *)
(* "set a <first>" and "set b <second>".                                   *)
VarSetConfig(first, second) ==
    << [EmptyEntry(FitsBoth) EXCEPT !.sets =
          << [name |-> <<97>>, value |-> Var(first), lineno |-> Tag(1, 1)],
             [name |-> <<98>>, value |-> Var(second), lineno |-> Tag(1, 2)] >>] >>

VarConfigs ==
    { <<>> } \cup { VarSetConfig(n1, n2) : n1 \in {<<114>>, <<119>>}, n2 \in {<<97>>, <<122>>} }

InitVar ==
    /\ sensors_chip_features_list = CatalogMain
    /\ sensors_proc_chips = <<TheChip>>
    /\ sensors_config_chips \in VarConfigs
    /\ proc \in { Backend({TheChip}, rfail, {}) : rfail \in {{}, {<<TheChip, 1>>}} }
    /\ io = <<>>
    /\ call = NoCall

VarEval == EvalExprOn(VarExprs, SourceValues)

NextVar == VarEval \/ DoAllSets

SpecVar == InitVar /\ [][NextVar]_vars

(* What sensors_get_feature returns for the feature a variable names; the  *)
(* return code does not depend on the content of the registers, and with   *)
(* no compute statement in the configuration not on junk either.           *)
GetOfVar(name, var, old, junk) ==
    sensors_get_feature(name, Deref(sensors_lookup_feature_name(name.prefix, var)).number,
                        old, proc, junk)

VarKnown(name, var) == sensors_lookup_feature_name(name.prefix, var) # NULL_feature

\* C11: sensors_eval_expr on a reference to a feature gives the outcome of
\* sensors_get_feature on that feature: the no-entry error when the name is
\* in no catalog, the value read when sensors_get_feature succeeds, and the
\* error of sensors_get_feature when it fails.  The failure reaches the
\* caller: a set statement whose value refers to a feature that cannot be
\* read writes nothing to the backend and the pass returns an error.
C11_VarRefIsGetFeature ==
    /\ (call.op = "eval_expr" /\ call.expr.kind = "var") =>
          IF ~ VarKnown(TheChip, call.expr.var)
          THEN call.rc \in {SENSORS_ERR_NO_ENTRY, - SENSORS_ERR_NO_ENTRY}
          ELSE /\ call.rc = GetOfVar(TheChip, call.expr.var, call.old, call.junk).rc
               /\ call.rc = 0 =>
                    call.result =
                        GetOfVar(TheChip, call.expr.var, call.old, call.junk).result
    /\ call.op = "do_chip_sets" =>
          LET sets == Events("set")
          IN  \A k \in sets :
                LET value == sensors_config_chips[io[k].nr].sets[io[k].i].value
                IN  ( /\ value.kind = "var"
                      /\ VarKnown(io[k].name, value.var)
                      /\ GetOfVar(io[k].name, value.var,
                                  Uninit("value", io[k].name), call.junk).rc # 0 ) =>
                        /\ \A j \in Segment(k, sets) : io[j].ev # "write"
                        /\ call.rc # 0

====
